------------------------- MODULE Exceptions_proofs -------------------------
(***************************************************************************)
(* Proofs about the descriptor tables, the exception stubs and             *)
(* exception_handler for every placement of the stubs, every set of        *)
(* vectors and error codes, any number of exceptions on top of one another *)
(* and any stack size and use of the stack by the compiled functions.      *)
(***************************************************************************)
EXTENDS Exceptions, NaturalFacts, FiniteSetTheorems, SequenceTheorems, TLAPS

\* The points of an exception under way: in the stub, in the handler.
InStub    == {"mov_rdi", "rsi", "mov_rdx", "cli", "call"}
InHandler == {"name", "code", "cr2", "frame", "halt", "halted"}

\* How far gdt_init and idt_init have come.
TablesSoFar ==
    /\ tpc # "fault"
    /\ tpc \in {"lgdt", "retfq", "segments"} => stored = 0
    /\ tpc = "fill" => stored < 256
    /\ tpc \in {"lidt", "live"} => stored = 256
    /\ gdtr = "firmware" <=> tpc = "lgdt"
    /\ idtr = "kernel" <=> tpc = "live"

\* Nothing returns from an exception: running means none was taken, and a
\* stub is running only with the kernel's IDT live and for the last one.
Path ==
    /\ epc = "running" => raised = <<>>
    /\ epc = "reset" => gdtr = "kernel"
    /\ epc \in {"firmware", "reset"} => idtr = "firmware"
    /\ epc \in InStub \cup InHandler =>
          /\ idtr = "kernel" /\ Depth > 0
          /\ stub = StubVector(Current.vector)
          /\ Current.cr2 = Depth
          /\ Current.vector = 14 => cr2 = Word("address", Depth)

\* What the parameters of exception_handler have to be.
TheVector == Word("number", StubVector(Current.vector))
TheCode   == Word("number", IF Current.vector \in PushesErrorCode
                            THEN Current.code ELSE 0)

\* The frame of the n-th exception ends at position p of the stack.
FrameAt(p, n) ==
    /\ stk[p - 4] = Word("ss", n) /\ stk[p - 3] = Word("rsp", n)
    /\ stk[p - 2] = Word("rflags", n) /\ stk[p - 1] = Word("cs", n)
    /\ stk[p] = Word("rip", n)

\* Where the frame of the exception under way lies while a stub runs: on top,
\* until rsi is loaded below the error code if there is one.
OnTop ==
    /\ epc \in {"mov_rdi", "rsi"} =>
          IF Current.vector \in PushesErrorCode
          THEN /\ Len(stk) >= 6 /\ FrameAt(Len(stk) - 1, Depth)
               /\ stk[Len(stk)] = Word("number", Current.code)
          ELSE Len(stk) >= 5 /\ FrameAt(Len(stk), Depth)
    /\ epc \in {"mov_rdx", "cli", "call"} =>
          Len(stk) >= 5 /\ FrameAt(Len(stk), Depth)

Registers ==
    /\ epc \in {"rsi", "mov_rdx", "cli", "call"} => reg["rdi"] = TheVector
    /\ epc \in {"mov_rdx", "cli", "call"} => reg["rsi"] = TheCode
    /\ epc \in {"cli", "call"} => reg["rdx"] = Word("pointer", Len(stk))
    /\ reg["r8"] = Junk

\* The handler's view, under the convention its comment names and under the
\* other one.
Parameters ==
    epc \in InHandler =>
        IF abi = "sysv64"
        THEN /\ args.vector = TheVector /\ args.code = TheCode
             /\ args.frame.kind = "pointer" /\ args.frame.n \in 5 .. Len(stk)
             /\ FrameAt(args.frame.n, Depth)
        ELSE args.frame = Junk

\* The report grows by a paragraph per step.
ReportSoFar ==
    /\ report \in [vector: Words, code: Words, cr2: Words, frame: Seq(Words)]
    /\ epc \in InStub \cup {"name"} => report = NoReport
    /\ epc = "code" => report.code = Junk
    /\ epc \in {"code", "cr2"} => report.cr2 = Junk
    /\ abi = "sysv64" =>
          /\ epc \in {"code", "cr2", "frame", "halt", "halted"} =>
                report.vector = TheVector
          /\ epc \in {"cr2", "frame", "halt", "halted"} =>
                report.code = IF Current.vector \in PushesErrorCode
                              THEN Word("number", Current.code) ELSE Junk
          /\ epc \in {"frame", "halt", "halted"} =>
                report.cr2 = IF Current.vector = 14 THEN Word("address", Depth)
                             ELSE Junk
          /\ epc \in {"halt", "halted"} => report.frame = Frame(Depth)

\* Each exception has its frame, and its RIP is nowhere else on the stack.
Frames ==
    idtr = "kernel" => \A n \in 1 .. Depth : \E p \in 5 .. Len(stk) :
        /\ FrameAt(p, n)
        /\ \A q \in 1 .. Len(stk) : stk[q] = Word("rip", n) => q = p

\* The frame of the next exception will be new.
Fresh == \A q \in 1 .. Len(stk) : stk[q].kind = "rip" => stk[q].n <= Depth

\* What an exception has yet to take of its share of the stack.
Slack ==
    IF epc \in {"mov_rdi", "rsi"}
    THEN HandlerWords + (IF Current.vector \in PushesErrorCode THEN 0 ELSE 1)
    ELSE IF epc \in {"mov_rdx", "cli", "call"} THEN HandlerWords + 1 ELSE 0

Room == Len(stk) + Slack <= KernelWords + Depth * (7 + HandlerWords)

IInv == TypeOK /\ TablesSoFar /\ Path /\ OnTop /\ Registers /\ Parameters
        /\ ReportSoFar /\ Frames /\ Fresh /\ Room

-----------------------------------------------------------------------------
(* Arithmetic: a number is put together again from its pieces. *)

LEMMA TwoDigits ==
    ASSUME NEW p \in Nat, NEW q \in Nat, NEW r \in Nat, NEW s \in Nat, NEW u \in Nat,
           q = p * u + s
    PROVE  p * q + r = r + p * s + (p * p) * u
<1> DEFINE w == p * u
<1>1. w \in Nat /\ p * w \in Nat /\ p * s \in Nat /\ p * w = (p * p) * u
  OBVIOUS
<1> HIDE DEF w
<1>2. p * q = p * w + p * s
  BY <1>1 DEF w
<1> QED
  BY <1>1, <1>2

\* Dividing twice is dividing by the square.
LEMMA DivTwice ==
    ASSUME NEW h \in Nat, NEW p \in Nat \ {0}
    PROVE  (h \div p) \div p = h \div (p * p)
<1> DEFINE q == h \div p
           u == q \div p
           m == (h % p) + p * (q % p)
<1>1. q \in Nat /\ h % p \in 0 .. p - 1 /\ h = p * q + (h % p)
  BY DivMod
<1>2. u \in Nat /\ q % p \in 0 .. p - 1 /\ q = p * u + (q % p)
  BY <1>1, DivMod
<1>3. p * p \in Nat \ {0}
  OBVIOUS
<1> HIDE DEF q, u
<1>4. h = (p * p) * u + m
  <2>1. p * q + (h % p) = (h % p) + p * (q % p) + (p * p) * u
    BY <1>1, <1>2, TwoDigits
  <2>2. p * (q % p) \in Nat /\ (p * p) * u \in Nat /\ h % p \in Nat
    BY <1>1, <1>2
  <2> QED
    BY <2>1, <2>2, <1>1
<1>5. m \in 0 .. (p * p) - 1
  <2>1. p * (q % p) + p <= p * p
    <3>1. q % p \in Nat /\ q % p < p
      BY <1>2
    <3> QED
      BY <3>1, ProductGrows
  <2>2. p * (q % p) \in Nat
    BY <1>2
  <2> QED
    BY <2>1, <2>2, <1>1, <1>3
<1>6. /\ h \div (p * p) \in Nat /\ h % (p * p) \in 0 .. (p * p) - 1
      /\ h = (p * p) * (h \div (p * p)) + (h % (p * p))
  BY <1>3, DivMod
<1> HIDE DEF m
<1>7. u = h \div (p * p)
  BY <1>2, <1>3, <1>4, <1>5, <1>6, DivUnique
<1> QED
  BY <1>7 DEF u, q

\* IdtEntry::new cuts the handler's address so that the CPU finds it again.
LEMMA PiecesMeet ==
    ASSUME NEW h \in 0 .. Piece * Piece * Piece * Piece - 1
    PROVE  NewGate(h).offset_low + Piece * NewGate(h).offset_mid
               + Piece * Piece * NewGate(h).offset_high = h
<1>1. Piece \in Nat \ {0}
  BY AddressAssumption
<1> DEFINE p == Piece
           q == h \div p
           u == q \div p
<1>2. h \in Nat /\ h < (p * p) * (p * p)
  BY <1>1
<1>3. q \in Nat /\ h = p * q + (h % p) /\ h % p \in Nat
  BY <1>1, <1>2, DivMod
<1>4. u \in Nat /\ q = p * u + (q % p) /\ q % p \in Nat
  BY <1>1, <1>3, DivMod
<1>5. u = h \div (p * p)
  BY <1>1, <1>2, DivTwice
<1>6. p * p \in Nat \ {0}
  BY <1>1
<1>7. u < p * p
  BY <1>2, <1>5, <1>6, DivBelow
<1>8. u % (p * p) = u
  BY <1>4, <1>6, <1>7
<1>9. /\ NewGate(h).offset_low = h % p /\ NewGate(h).offset_mid = q % p
      /\ NewGate(h).offset_high = u
  BY <1>5, <1>8 DEF NewGate
<1>10. p \in Nat \ {0}
  BY <1>1
<1> HIDE DEF p, q, u
<1>11. h = (h % p) + p * (q % p) + p * p * u
  <2>1. p * q + (h % p) = (h % p) + p * (q % p) + (p * p) * u
    BY <1>10, <1>3, <1>4, TwoDigits
  <2> QED
    BY <2>1, <1>3
<1> QED
  BY <1>9, <1>11 DEF p

-----------------------------------------------------------------------------
(* The tables *)

\* gdt_init's two selectors are what the CPU wants to see.
LEMMA SelectorsLoad ==
    LoadsAsCode(KERNEL_CODE_SELECTOR) /\ LoadsAsData(KERNEL_DATA_SELECTOR)
<1>1. GdtLimit = 23 /\ Named(8) = KERNEL_CODE_DESCRIPTOR
      /\ Named(16) = KERNEL_DATA_DESCRIPTOR
  BY DEF GdtLimit, Gdt, Named
<1>2. Present(KERNEL_CODE_DESCRIPTOR) /\ Ring0(KERNEL_CODE_DESCRIPTOR)
      /\ Code64(KERNEL_CODE_DESCRIPTOR)
  BY DEF Present, Ring0, Code64, Bit, KERNEL_CODE_DESCRIPTOR
<1>3. Present(KERNEL_DATA_DESCRIPTOR) /\ Ring0(KERNEL_DATA_DESCRIPTOR)
      /\ Writable(KERNEL_DATA_DESCRIPTOR)
  BY DEF Present, Ring0, Writable, Bit, KERNEL_DATA_DESCRIPTOR
<1> QED
  BY <1>1, <1>2, <1>3
     DEF LoadsAsCode, LoadsAsData, Names, KERNEL_CODE_SELECTOR, KERNEL_DATA_SELECTOR

LEMMA StubVectorIs ==
    ASSUME NEW v \in 0 .. 255
    PROVE  /\ StubVector(v) \in StubNumbers /\ StubVector(v) \in Nat
           /\ StubVector(v) \in StubEc <=> v \in PushesErrorCode
           /\ StubVector(v) \in EcMask <=> v \in PushesErrorCode
           /\ StubVector(v) = 14 <=> v = 14
  BY DEF StubVector, StubNumbers, StubEc, EcMask, PushesErrorCode

\* With all 256 gates stored each vector is caught, by its own stub.
LEMMA GatesLead ==
    ASSUME stored = 256, idtr = "kernel", NEW v \in 0 .. 255
    PROVE  Caught(v) /\ StubReached(v) = StubVector(v)
<1> DEFINE h == StubAt[StubVector(v)]
<1>1. h \in 0 .. Piece * Piece * Piece * Piece - 1 /\ StubVector(v) \in StubNumbers
  BY AddressAssumption, StubVectorIs
<1>2. Idt(v) = NewGate(h)
  BY DEF Idt
<1>3. GateTarget(v) = h
  BY <1>1, <1>2, PiecesMeet DEF GateTarget
<1>4. NewGate(h).selector = KERNEL_CODE_SELECTOR /\ NewGate(h).ist = 0
      /\ NewGate(h).type_attr = \h8E
  BY DEF NewGate, KERNEL_CODE_SELECTOR
<1>5. GateOpens(v)
  BY <1>2, <1>4, SelectorsLoad DEF GateOpens, IdtLimit
<1>6. \A n \in StubNumbers : StubAt[n] = GateTarget(v) <=> n = StubVector(v)
  BY <1>1, <1>3, AddressAssumption
<1>7. Caught(v)
  BY <1>1, <1>3, <1>5 DEF Caught
<1>8. StubReached(v) = StubVector(v)
  BY <1>1, <1>6 DEF StubReached
<1> QED
  BY <1>7, <1>8

-----------------------------------------------------------------------------
(* Words and stacks *)

LEMMA WordIs ==
    /\ \A k, n : Word(k, n).kind = k /\ Word(k, n).n = n
    /\ \A k, n, j, m : Word(k, n) = Word(j, m) => k = j /\ n = m
<1>1. \A k, n : Word(k, n).kind = k /\ Word(k, n).n = n
  BY DEF Word
<1> QED
  BY <1>1

LEMMA WordTypes ==
    /\ \A k \in {"number", "junk", "pointer", "return", "address", "ss", "rsp",
                 "rflags", "cs", "rip"}, n \in Nat : Word(k, n) \in Words
    /\ Junk \in Words /\ Zero \in Words /\ Junk.kind = "junk"
    /\ Junk = Word("junk", 0) /\ Zero = Word("number", 0)
  BY DEF Word, Words, Junk, Zero

\* What a frame pointer shows, word by word.
LEMMA AtIsFrame ==
    ASSUME stk \in Seq(Words), NEW p \in 5 .. Len(stk), NEW n \in Nat
    PROVE  At(p) = Frame(n) <=> FrameAt(p, n)
<1>1. Len(stk) \in Nat /\ \A i \in (p - 4) .. p : stk[i] \in Words
  BY LenProperties, ElementOfSeq
<1>2. /\ At(p) \in Seq(Words) /\ Len(At(p)) = 5
      /\ \A i \in 1 .. 5 : At(p)[i] = stk[(p - 4) + i - 1]
  <2> DEFINE a == p - 4
  <2>1. a \in Int /\ p \in Int /\ a <= p /\ p - a + 1 = 5
    BY <1>1
  <2>2. /\ SubSeq(stk, a, p) \in Seq(Words)
        /\ Len(SubSeq(stk, a, p)) = IF a <= p THEN p - a + 1 ELSE 0
        /\ \A i \in 1 .. p - a + 1 : SubSeq(stk, a, p)[i] = stk[a + i - 1]
    <3>1. \A i \in a .. p : stk[i] \in Words
      BY <1>1
    <3> HIDE DEF a
    <3> QED
      BY <2>1, <3>1, SubSeqProperties
  <2> QED
    BY <2>1, <2>2 DEF At
<1>3. /\ At(p)[1] = stk[p - 4] /\ At(p)[2] = stk[p - 3] /\ At(p)[3] = stk[p - 2]
      /\ At(p)[4] = stk[p - 1] /\ At(p)[5] = stk[p]
  <2>1. /\ (p - 4) + 1 - 1 = p - 4 /\ (p - 4) + 2 - 1 = p - 3
        /\ (p - 4) + 3 - 1 = p - 2 /\ (p - 4) + 4 - 1 = p - 1
        /\ (p - 4) + 5 - 1 = p
    OBVIOUS
  <2> QED
    BY <1>2, <2>1
<1>4. /\ Frame(n) \in Seq(Words) /\ Len(Frame(n)) = 5
      /\ Frame(n)[1] = Word("ss", n) /\ Frame(n)[2] = Word("rsp", n)
      /\ Frame(n)[3] = Word("rflags", n) /\ Frame(n)[4] = Word("cs", n)
      /\ Frame(n)[5] = Word("rip", n)
  BY WordTypes DEF Frame
<1>5. ASSUME At(p) = Frame(n) PROVE FrameAt(p, n)
  BY <1>3, <1>4, <1>5 DEF FrameAt
<1>6. ASSUME FrameAt(p, n) PROVE At(p) = Frame(n)
  <2>1. \A i \in 1 .. 5 : At(p)[i] = Frame(n)[i]
    <3> SUFFICES ASSUME NEW i \in 1 .. 5 PROVE At(p)[i] = Frame(n)[i]
      OBVIOUS
    <3>1. i = 1 \/ i = 2 \/ i = 3 \/ i = 4 \/ i = 5
      OBVIOUS
    <3> QED
      BY <3>1, <1>3, <1>4, <1>6 DEF FrameAt
  <2> HIDE DEF At, Frame
  <2> QED
    BY <2>1, <1>2, <1>4, SeqEqual
<1> QED
  BY <1>5, <1>6

\* Nothing happens to a frame when other words come on top.
LEMMA Grown ==
    ASSUME TypeOK, Frames, Fresh, Depth' = Depth, idtr' = idtr,
           Len(stk') \in Nat, Len(stk') >= Len(stk),
           \A i \in 1 .. Len(stk) : stk'[i] = stk[i],
           \A i \in Len(stk) + 1 .. Len(stk') : stk'[i].kind # "rip"
    PROVE  /\ Frames' /\ Fresh'
           /\ \A p \in 5 .. Len(stk) : \A n : FrameAt(p, n) => FrameAt(p, n)'
<1>1. Len(stk) \in Nat
  BY LenProperties DEF TypeOK
<1>2. \A p \in 5 .. Len(stk) : \A n : FrameAt(p, n) => FrameAt(p, n)'
  BY <1>1, SMTT(30) DEF FrameAt
<1>3. Fresh'
  BY <1>1 DEF Fresh
<1>4. Frames'
  <2> SUFFICES ASSUME idtr = "kernel", NEW n \in 1 .. Depth
               PROVE  \E p \in 5 .. Len(stk') : FrameAt(p, n)'
                      /\ \A q \in 1 .. Len(stk') : stk'[q] = Word("rip", n) => q = p
    BY DEF Frames
  <2>1. PICK p \in 5 .. Len(stk) : FrameAt(p, n)
             /\ \A q \in 1 .. Len(stk) : stk[q] = Word("rip", n) => q = p
    BY DEF Frames
  <2>2. p \in 5 .. Len(stk') /\ FrameAt(p, n)'
    BY <1>1, <1>2, <2>1
  <2>3. \A q \in 1 .. Len(stk') : stk'[q] = Word("rip", n) => q = p
    <3> SUFFICES ASSUME NEW q \in 1 .. Len(stk'), stk'[q] = Word("rip", n)
                 PROVE  q = p
      OBVIOUS
    <3>1. stk'[q].kind = "rip"
      BY WordIs
    <3>2. q \in 1 .. Len(stk)
      BY <1>1, <3>1
    <3> QED
      BY <2>1, <3>2
  <2> QED
    BY <2>2, <2>3
<1> QED
  BY <1>2, <1>3, <1>4

LEMMA Still ==
    ASSUME stk' = stk, Depth' = Depth, idtr' = idtr, Frames, Fresh
    PROVE  /\ Frames' /\ Fresh'
           /\ \A p, n : FrameAt(p, n)' <=> FrameAt(p, n)
  BY DEF Frames, Fresh, FrameAt

\* Three sequences in a row, index by index.
LEMMA ThreeParts ==
    ASSUME NEW S, NEW a \in Seq(S), NEW b \in Seq(S), NEW c \in Seq(S)
    PROVE  LET d == (a \o b) \o c IN
           /\ d \in Seq(S) /\ Len(d) = Len(a) + Len(b) + Len(c)
           /\ \A i \in 1 .. Len(a) : d[i] = a[i]
           /\ \A i \in 1 .. Len(b) : d[Len(a) + i] = b[i]
           /\ \A i \in 1 .. Len(c) : d[Len(a) + Len(b) + i] = c[i]
<1> DEFINE g == a \o b
           d == g \o c
<1>1. Len(a) \in Nat /\ Len(b) \in Nat /\ Len(c) \in Nat
  BY LenProperties
<1>2. /\ g \in Seq(S) /\ Len(g) = Len(a) + Len(b)
      /\ \A i \in 1 .. Len(a) + Len(b) : g[i] = IF i <= Len(a) THEN a[i] ELSE b[i - Len(a)]
  BY ConcatProperties
<1> HIDE DEF g
<1>3. /\ d \in Seq(S) /\ Len(d) = Len(g) + Len(c)
      /\ \A i \in 1 .. Len(g) + Len(c) : d[i] = IF i <= Len(g) THEN g[i] ELSE c[i - Len(g)]
  <2>1. g \in Seq(S)
    BY <1>2
  <2> QED
    BY <2>1, ConcatProperties
<1> HIDE DEF d
<1>4. ASSUME NEW i \in 1 .. Len(a) PROVE d[i] = a[i]
  <2>1. i \in 1 .. Len(a) + Len(b) /\ i \in 1 .. Len(g) + Len(c) /\ i <= Len(g)
    BY <1>1, <1>2
  <2> QED
    BY <1>2, <1>3, <2>1
<1>5. ASSUME NEW i \in 1 .. Len(b) PROVE d[Len(a) + i] = b[i]
  <2> DEFINE j == Len(a) + i
  <2>1. /\ j \in 1 .. Len(a) + Len(b) /\ j \in 1 .. Len(g) + Len(c) /\ j <= Len(g)
        /\ ~(j <= Len(a)) /\ j - Len(a) = i
    BY <1>1, <1>2
  <2> HIDE DEF j
  <2>2. d[j] = b[i]
    BY <1>2, <1>3, <2>1
  <2> QED
    BY <2>2 DEF j
<1>6. ASSUME NEW i \in 1 .. Len(c) PROVE d[Len(a) + Len(b) + i] = c[i]
  <2> DEFINE j == Len(a) + Len(b) + i
  <2>1. j \in 1 .. Len(g) + Len(c) /\ ~(j <= Len(g)) /\ j - Len(g) = i
    BY <1>1, <1>2
  <2> HIDE DEF j
  <2>2. d[j] = c[i]
    BY <1>3, <2>1
  <2> QED
    BY <2>2 DEF j
<1>7. Len(d) = Len(a) + Len(b) + Len(c)
  BY <1>1, <1>2, <1>3
<1> QED
  BY <1>3, <1>4, <1>5, <1>6, <1>7 DEF d, g

\* The stack an exception leaves: what was there, perhaps a word of padding
\* up to position L, the frame and perhaps the error code.
Pushed(L, d, v, c) ==
    /\ L \in {Len(stk), Len(stk) + 1} /\ Len(stk) \in Nat
    /\ stk' \in Seq(Words)
    /\ Len(stk') = L + 5 + (IF v \in PushesErrorCode THEN 1 ELSE 0)
    /\ \A i \in 1 .. Len(stk) : stk'[i] = stk[i]
    /\ L = Len(stk) + 1 => stk'[L] = Junk
    /\ stk'[L + 1] = Word("ss", d) /\ stk'[L + 2] = Word("rsp", d)
    /\ stk'[L + 3] = Word("rflags", d) /\ stk'[L + 4] = Word("cs", d)
    /\ stk'[L + 5] = Word("rip", d)
    /\ v \in PushesErrorCode => stk'[L + 6] = Word("number", c)

LEMMA RaisedStack ==
    ASSUME TypeOK, NEW v \in 0 .. 255, NEW c \in Nat, NEW L, NEW d,
           L = Len(AlignedStack), d = Depth + 1,
           stk' = AlignedStack \o Frame(Depth + 1)
                    \o (IF v \in PushesErrorCode THEN <<Word("number", c)>> ELSE <<>>)
    PROVE  Pushed(L, d, v, c)
<1> DEFINE a == AlignedStack
           f == Frame(Depth + 1)
           e == IF v \in PushesErrorCode THEN <<Word("number", c)>> ELSE <<>>
<1>1. Len(stk) \in Nat /\ stk \in Seq(Words) /\ Depth \in Nat
  BY LenProperties DEF TypeOK, Depth
<1>2. /\ a \in Seq(Words) /\ L \in {Len(stk), Len(stk) + 1}
      /\ \A i \in 1 .. Len(stk) : a[i] = stk[i]
      /\ L = Len(stk) + 1 => a[L] = Junk
  <2>1. CASE Len(stk) % 2 = 0
    BY <1>1, <2>1 DEF AlignedStack
  <2>2. CASE Len(stk) % 2 # 0
    <3>1. a = Append(stk, Junk)
      BY <2>2 DEF AlignedStack
    <3> QED
      BY <1>1, <3>1, WordTypes, AppendProperties
  <2> QED
    BY <2>1, <2>2
<1>3. /\ f \in Seq(Words) /\ Len(f) = 5
      /\ f[1] = Word("ss", d) /\ f[2] = Word("rsp", d)
      /\ f[3] = Word("rflags", d) /\ f[4] = Word("cs", d)
      /\ f[5] = Word("rip", d)
  BY <1>1, WordTypes DEF Frame
<1>4. /\ e \in Seq(Words)
      /\ v \in PushesErrorCode => Len(e) = 1 /\ e[1] = Word("number", c)
      /\ v \notin PushesErrorCode => Len(e) = 0
  BY WordTypes
<1>5. stk' = (a \o f) \o e /\ L = Len(a)
  OBVIOUS
<1> HIDE DEF a, f, e
<1>6. /\ stk' \in Seq(Words) /\ Len(stk') = L + Len(f) + Len(e)
      /\ \A i \in 1 .. L : stk'[i] = a[i]
      /\ \A i \in 1 .. Len(f) : stk'[L + i] = f[i]
      /\ \A i \in 1 .. Len(e) : stk'[L + Len(f) + i] = e[i]
  <2>1. a \in Seq(Words) /\ f \in Seq(Words) /\ e \in Seq(Words)
    BY <1>2, <1>3, <1>4
  <2> DEFINE t == (a \o f) \o e
  <2>2. /\ t \in Seq(Words) /\ Len(t) = Len(a) + Len(f) + Len(e)
        /\ \A i \in 1 .. Len(a) : t[i] = a[i]
        /\ \A i \in 1 .. Len(f) : t[Len(a) + i] = f[i]
        /\ \A i \in 1 .. Len(e) : t[Len(a) + Len(f) + i] = e[i]
    BY <2>1, ThreeParts
  <2>3. stk' = t /\ L = Len(a)
    BY <1>5
  <2> HIDE DEF t
  <2> QED
    BY <2>2, <2>3
<1>7. Len(stk') = L + 5 + (IF v \in PushesErrorCode THEN 1 ELSE 0)
  BY <1>1, <1>2, <1>3, <1>4, <1>6
<1>8. (\A i \in 1 .. Len(stk) : stk'[i] = stk[i]) /\ (L = Len(stk) + 1 => stk'[L] = Junk)
  BY <1>1, <1>2, <1>6
<1>9. /\ stk'[L + 1] = f[1] /\ stk'[L + 2] = f[2] /\ stk'[L + 3] = f[3]
      /\ stk'[L + 4] = f[4] /\ stk'[L + 5] = f[5]
  <2>1. \A i \in 1 .. 5 : stk'[L + i] = f[i]
    BY <1>3, <1>6
  <2>2. 1 \in 1 .. 5 /\ 2 \in 1 .. 5 /\ 3 \in 1 .. 5 /\ 4 \in 1 .. 5 /\ 5 \in 1 .. 5
    OBVIOUS
  <2> QED
    BY <2>1, <2>2, Zenon
<1>10. v \in PushesErrorCode => stk'[L + 6] = Word("number", c)
  <2>1. L + 5 + 1 = L + 6
    BY <1>1, <1>2
  <2>2. \A i \in 1 .. Len(e) : stk'[L + 5 + i] = e[i]
    BY <1>3, <1>6
  <2>3. 1 \in 1 .. 1
    OBVIOUS
  <2> QED
    BY <1>4, <2>1, <2>2, <2>3, Zenon
<1> QED
  BY <1>1, <1>2, <1>3, <1>6, <1>7, <1>8, <1>9, <1>10 DEF Pushed

-----------------------------------------------------------------------------
(* The invariant holds initially, and every step keeps it. *)

LEMMA DepthIs ==
    ASSUME TypeOK
    PROVE  /\ Depth \in Nat
           /\ Depth > 0 => Current \in [vector: 0 .. 255, code: Nat, cr2: Nat]
<1> DEFINE R == [vector: 0 .. 255, code: Nat, cr2: Nat]
<1>1. raised \in Seq(R)
  BY DEF TypeOK
<1> HIDE DEF R
<1>2. Len(raised) \in Nat
  BY <1>1, LenProperties
<1>3. ASSUME Len(raised) > 0 PROVE raised[Len(raised)] \in R
  BY <1>1, <1>2, <1>3, ElementOfSeq
<1> QED
  BY <1>2, <1>3 DEF Depth, Current, R

\* The words a function has in use of the stack are no frame.
LEMMA InUseIs ==
    ASSUME NEW n \in Nat, NEW s \in InUse(n)
    PROVE  s \in Seq(Words) /\ Len(s) \in 0 .. n /\ \A q \in 1 .. Len(s) : s[q] = Junk
<1>1. PICK m \in 0 .. n : s = [w \in 1 .. m |-> Junk]
  BY DEF InUse
<1>2. Len(s) = m /\ s \in Seq(Words)
  BY <1>1, WordTypes
<1> QED
  BY <1>1, <1>2

LEMMA InitIInv == Init => IInv
<1> SUFFICES ASSUME Init PROVE IInv
  OBVIOUS
<1>1. /\ epc = "running" /\ raised = <<>> /\ Depth = 0 /\ stub = 0
      /\ tpc = "lgdt" /\ gdtr = "firmware" /\ idtr = "firmware" /\ stored = 0
      /\ reg = [r \in {"rdi", "rsi", "rdx", "rcx", "r8"} |-> Junk]
      /\ abi \in Abis /\ args = NoArgs /\ cr2 = Junk /\ report = NoReport
  BY DEF Init, TInit, Depth
<1>2. ifl \in BOOLEAN
  BY Zenon DEF Init
<1>3. stk \in Seq(Words) /\ Len(stk) \in 0 .. KernelWords
      /\ \A q \in 1 .. Len(stk) : stk[q] = Junk
  BY StackAssumption, InUseIs DEF Init
<1>4. <<>> \in Seq(Words)
      /\ <<>> \in Seq([vector: 0 .. 255, code: Nat, cr2: Nat])
  OBVIOUS
<1>5. TypeOK
  BY <1>1, <1>2, <1>3, <1>4, WordTypes
     DEF TypeOK, Points, StubNumbers, NoArgs, NoReport
<1>6. TablesSoFar /\ Path /\ OnTop /\ Registers /\ Parameters
  BY <1>1 DEF TablesSoFar, Path, OnTop, Registers, Parameters, InStub, InHandler
<1>7. ReportSoFar
  BY <1>1, <1>4, WordTypes DEF ReportSoFar, NoReport, InStub
<1>8. Frames /\ Fresh
  BY <1>1, <1>3, WordTypes DEF Frames, Fresh
<1>9. Room
  <2>1. Slack = 0
    BY <1>1 DEF Slack
  <2>2. 0 * (7 + HandlerWords) = 0
    BY StackAssumption
  <2> QED
    BY <1>1, <1>3, <2>1, <2>2, StackAssumption DEF Room
<1> QED
  BY <1>5, <1>6, <1>7, <1>8, <1>9 DEF IInv

\* gdt_init and idt_init go on; nothing has been raised yet.
LEMMA SetUpIInv ==
    ASSUME IInv, SetUp
    PROVE  IInv'
<1>1. epc = "running" /\ UNCHANGED evars /\ TStep
  BY DEF SetUp
<1>2. Depth = 0 /\ Depth' = 0 /\ raised = <<>> /\ Current' = Current
  BY <1>1 DEF IInv, Path, Depth, Current, evars
<1>3. /\ tpc' \in {"lgdt", "retfq", "segments", "fill", "lidt", "live"}
      /\ gdtr' \in {"firmware", "kernel"} /\ idtr' \in {"firmware", "kernel"}
      /\ stored' \in 0 .. 256 /\ TablesSoFar'
  <2>1. /\ gdtr \in {"firmware", "kernel"} /\ idtr \in {"firmware", "kernel"}
        /\ stored \in 0 .. 256 /\ TablesSoFar
    BY DEF IInv, TypeOK
  <2>2. CASE Lgdt
    BY <2>1, <2>2 DEF TablesSoFar, Lgdt
  <2>3. CASE ReloadCs
    BY <2>1, <2>3, SelectorsLoad DEF TablesSoFar, ReloadCs
  <2>4. CASE ReloadSegments
    BY <2>1, <2>4, SelectorsLoad DEF TablesSoFar, ReloadSegments
  <2>5. CASE StoreGate
    BY <2>1, <2>5 DEF TablesSoFar, StoreGate
  <2>6. CASE Lidt
    BY <2>1, <2>6 DEF TablesSoFar, Lidt
  <2> QED
    BY <1>1, <2>2, <2>3, <2>4, <2>5, <2>6 DEF TStep
<1>4. TypeOK'
  <2>1. ifl' \in BOOLEAN
    BY <1>1, Zenon DEF IInv, TypeOK, evars
  <2> QED
    BY <1>1, <1>3, <2>1 DEF IInv, TypeOK, evars
<1>5. Path' /\ OnTop' /\ Registers' /\ Parameters'
  BY <1>1, <1>2 DEF IInv, Path, OnTop, Registers, Parameters, InStub, InHandler, evars
<1>6. ReportSoFar'
  BY <1>1, <1>2 DEF IInv, ReportSoFar, InStub, evars
<1>7. Frames' /\ Fresh'
  BY <1>1, <1>2 DEF IInv, Frames, Fresh, evars
<1>8. Room'
  BY <1>1, <1>2 DEF IInv, Room, Slack, evars
<1> QED
  BY <1>3, <1>4, <1>5, <1>6, <1>7, <1>8 DEF IInv

\* kernel_main calls and returns; nothing has been raised yet.
LEMMA KernelCallsIInv ==
    ASSUME IInv, KernelCalls
    PROVE  IInv'
<1>1. /\ epc = "running" /\ UNCHANGED <<abi, epc, stub, reg, args, cr2, raised, report>>
      /\ UNCHANGED <<tpc, gdtr, idtr, stored>>
  BY DEF KernelCalls, tvars
<1>2. Depth = 0 /\ Depth' = 0 /\ raised = <<>> /\ Current' = Current
  BY <1>1 DEF IInv, Path, Depth, Current
<1>3. stk' \in Seq(Words) /\ Len(stk') \in 0 .. KernelWords
      /\ \A q \in 1 .. Len(stk') : stk'[q] = Junk
  BY StackAssumption, InUseIs DEF KernelCalls
<1>4. TypeOK'
  <2>1. ifl' \in BOOLEAN
    BY Zenon DEF KernelCalls, IInv, TypeOK
  <2> QED
    BY <1>1, <1>3, <2>1 DEF IInv, TypeOK
<1>5. TablesSoFar' /\ Path' /\ OnTop' /\ Registers' /\ Parameters'
  BY <1>1, <1>2 DEF IInv, TablesSoFar, Path, OnTop, Registers, Parameters, InStub,
                    InHandler
<1>6. ReportSoFar'
  BY <1>1, <1>2 DEF IInv, ReportSoFar, InStub
<1>7. Frames' /\ Fresh'
  BY <1>2, <1>3, WordTypes DEF Frames, Fresh
<1>8. Room'
  <2>1. Slack' = 0
    BY <1>1 DEF Slack
  <2>2. 0 * (7 + HandlerWords) = 0
    BY StackAssumption
  <2> QED
    BY <1>2, <1>3, <2>1, <2>2, StackAssumption DEF Room
<1> QED
  BY <1>4, <1>5, <1>6, <1>7, <1>8 DEF IInv

\* An instruction of the stub or a step of the handler leaves the tables and
\* the exceptions taken alone.
LEMMA GotoKeeps ==
    ASSUME IInv, NEW from \in InStub \cup InHandler, NEW to \in InStub \cup InHandler,
           Goto(from, to), cr2' = cr2
    PROVE  /\ epc = from /\ epc' = to
           /\ UNCHANGED <<tpc, gdtr, idtr, stored, abi, stub, raised>>
           /\ Depth' = Depth /\ Current' = Current
           /\ TheVector' = TheVector /\ TheCode' = TheCode
           /\ Depth \in Nat /\ Depth > 0
           /\ Current \in [vector: 0 .. 255, code: Nat, cr2: Nat]
           /\ idtr = "kernel" /\ stub = StubVector(Current.vector)
           /\ TheVector \in Words /\ TheCode \in Words
           /\ Len(stk) \in Nat /\ stk \in Seq(Words)
           /\ TablesSoFar' /\ Path'
<1>1. /\ epc = from /\ epc' = to
      /\ UNCHANGED <<tpc, gdtr, idtr, stored, abi, stub, raised>>
  BY DEF Goto, tvars
<1>2. Depth' = Depth /\ Current' = Current
  BY <1>1 DEF Depth, Current
<1>3. TheVector' = TheVector /\ TheCode' = TheCode
  BY <1>2 DEF TheVector, TheCode
<1>4. idtr = "kernel" /\ stub = StubVector(Current.vector) /\ Depth > 0
  BY <1>1 DEF IInv, Path
<1>5. Depth \in Nat /\ Current \in [vector: 0 .. 255, code: Nat, cr2: Nat]
  BY <1>4, DepthIs DEF IInv
<1>6. TheVector \in Words /\ TheCode \in Words
  <2>1. StubVector(Current.vector) \in Nat
    BY <1>5, StubVectorIs
  <2>2. (IF Current.vector \in PushesErrorCode THEN Current.code ELSE 0) \in Nat
    BY <1>5
  <2> QED
    BY <2>1, <2>2, WordTypes DEF TheVector, TheCode
<1>7. Len(stk) \in Nat /\ stk \in Seq(Words)
  BY LenProperties DEF IInv, TypeOK
<1>8. TablesSoFar'
  BY <1>1 DEF IInv, TablesSoFar
<1>9. Path'
  BY <1>1, <1>2 DEF IInv, Path, InStub, InHandler
<1> QED
  BY <1>1, <1>2, <1>3, <1>4, <1>5, <1>6, <1>7, <1>8, <1>9

Regs == {"rdi", "rsi", "rdx", "rcx", "r8"}
ArgsType == [vector: Words, code: Words, frame: Words]
ReportType == [vector: Words, code: Words, cr2: Words, frame: Seq(Words)]

\* What is left to show of such a step.
LEMMA GotoIInv ==
    ASSUME IInv, NEW from \in InStub \cup InHandler, NEW to \in InStub \cup InHandler,
           Goto(from, to), cr2' = cr2, ifl' \in BOOLEAN,
           reg' \in [Regs -> Words], args' \in ArgsType, stk' \in Seq(Words),
           OnTop', Registers', Parameters', ReportSoFar', Frames', Fresh', Room'
    PROVE  IInv'
<1>1. /\ epc' = to /\ UNCHANGED <<tpc, gdtr, idtr, stored, abi, stub, raised>>
      /\ TablesSoFar' /\ Path'
  BY GotoKeeps
<1>2. report' \in ReportType
  BY DEF ReportSoFar, ReportType
<1>3. /\ report'.vector \in Words /\ report'.code \in Words /\ report'.cr2 \in Words
      /\ report'.frame \in Seq(Words)
  BY <1>2 DEF ReportType
<1>4. to \in Points
  BY DEF InStub, InHandler, Points
<1>5. TypeOK'
  BY <1>1, <1>3, <1>4 DEF IInv, TypeOK, Regs, ArgsType
<1> QED
  BY <1>1, <1>5 DEF IInv

\* The same for a step that leaves the stack alone.
LEMMA QuietIInv ==
    ASSUME IInv, NEW from \in InStub \cup InHandler, NEW to \in InStub \cup InHandler,
           Goto(from, to), UNCHANGED <<cr2, stk>>, ifl' \in BOOLEAN,
           reg' \in [Regs -> Words], args' \in ArgsType, Slack' = Slack,
           OnTop', Registers', Parameters', ReportSoFar'
    PROVE  IInv'
<1>1. Depth' = Depth /\ idtr' = idtr
  BY GotoKeeps
<1>2. Frames' /\ Fresh'
  BY <1>1, Still DEF IInv
<1>3. Room'
  BY <1>1 DEF IInv, Room
<1>4. stk' \in Seq(Words)
  BY DEF IInv, TypeOK
<1> QED
  BY <1>2, <1>3, <1>4, GotoIInv

LEMMA OldTypes ==
    ASSUME IInv
    PROVE  /\ reg \in [Regs -> Words] /\ args \in ArgsType /\ ifl \in BOOLEAN
           /\ report \in ReportType /\ cr2 \in Words
<1>1. ifl \in BOOLEAN
  BY Zenon DEF IInv, TypeOK
<1> QED
  BY <1>1 DEF IInv, TypeOK, ReportSoFar, Regs, ArgsType, ReportType

LEMMA MovRdiIInv ==
    ASSUME IInv, MovRdi
    PROVE  IInv'
<1>1. /\ Goto("mov_rdi", "rsi") /\ UNCHANGED <<stk, args, cr2, report>>
      /\ reg' = [reg EXCEPT !["rdi"] = Word("number", stub)]
  BY DEF MovRdi
<1>2. ifl' \in BOOLEAN
  BY OldTypes, Zenon DEF MovRdi
<1>3. "mov_rdi" \in InStub \cup InHandler /\ "rsi" \in InStub \cup InHandler
  BY DEF InStub
<1>4. /\ epc = "mov_rdi" /\ epc' = "rsi" /\ UNCHANGED <<abi, stub>>
      /\ Depth' = Depth /\ Current' = Current /\ TheVector' = TheVector
      /\ stub = StubVector(Current.vector) /\ TheVector \in Words
  BY <1>1, <1>3, GotoKeeps
<1>5. \A p, n : FrameAt(p, n)' <=> FrameAt(p, n)
  BY <1>1 DEF FrameAt
<1>6. Word("number", stub) = TheVector
  BY <1>4 DEF TheVector
<1>7. reg' \in [Regs -> Words] /\ reg'["rdi"] = TheVector /\ reg'["r8"] = reg["r8"]
  BY <1>1, <1>4, <1>6, OldTypes DEF Regs
<1>8. OnTop'
  BY <1>1, <1>4, <1>5 DEF IInv, OnTop
<1>9. Registers' /\ Parameters'
  BY <1>4, <1>7 DEF IInv, Registers, Parameters, InHandler
<1>10. ReportSoFar'
  BY <1>1, <1>4 DEF IInv, ReportSoFar, InStub
<1>11. Slack' = Slack
  BY <1>4 DEF Slack
<1>12. args' \in ArgsType
  BY <1>1, OldTypes
<1> QED
  BY <1>1, <1>2, <1>3, <1>7, <1>8, <1>9, <1>10, <1>11, <1>12, QuietIInv

LEMMA MovRdxIInv ==
    ASSUME IInv, MovRdx
    PROVE  IInv'
<1>1. /\ Goto("mov_rdx", "cli") /\ UNCHANGED <<stk, args, cr2, report>>
      /\ reg' = [reg EXCEPT !["rdx"] = Word("pointer", Len(stk))]
  BY DEF MovRdx
<1>2. ifl' \in BOOLEAN
  BY OldTypes, Zenon DEF MovRdx
<1>3. "mov_rdx" \in InStub \cup InHandler /\ "cli" \in InStub \cup InHandler
  BY DEF InStub
<1>4. /\ epc = "mov_rdx" /\ epc' = "cli" /\ UNCHANGED <<abi, stub>>
      /\ Depth' = Depth /\ Current' = Current /\ TheVector' = TheVector
      /\ TheCode' = TheCode /\ Len(stk) \in Nat
  BY <1>1, <1>3, GotoKeeps
<1>5. \A p, n : FrameAt(p, n)' <=> FrameAt(p, n)
  BY <1>1 DEF FrameAt
<1>6. Word("pointer", Len(stk)) \in Words
  BY <1>4, WordTypes
<1>7. /\ reg' \in [Regs -> Words] /\ reg'["rdi"] = reg["rdi"]
      /\ reg'["rsi"] = reg["rsi"] /\ reg'["rdx"] = Word("pointer", Len(stk))
      /\ reg'["r8"] = reg["r8"]
  BY <1>1, <1>6, OldTypes DEF Regs
<1>8. OnTop'
  BY <1>1, <1>4, <1>5 DEF IInv, OnTop
<1>9. Registers' /\ Parameters'
  BY <1>1, <1>4, <1>7 DEF IInv, Registers, Parameters, InHandler
<1>10. ReportSoFar'
  BY <1>1, <1>4 DEF IInv, ReportSoFar, InStub
<1>11. Slack' = Slack
  BY <1>4 DEF Slack
<1>12. args' \in ArgsType
  BY <1>1, OldTypes
<1> QED
  BY <1>1, <1>2, <1>3, <1>7, <1>8, <1>9, <1>10, <1>11, <1>12, QuietIInv

LEMMA CliIInv ==
    ASSUME IInv, Cli
    PROVE  IInv'
<1>1. Goto("cli", "call") /\ UNCHANGED <<stk, reg, args, cr2, report>>
  BY DEF Cli
<1>2. ifl' \in BOOLEAN
  BY Zenon DEF Cli
<1>3. "cli" \in InStub \cup InHandler /\ "call" \in InStub \cup InHandler
  BY DEF InStub
<1>4. /\ epc = "cli" /\ epc' = "call" /\ UNCHANGED <<abi, stub>>
      /\ Depth' = Depth /\ Current' = Current /\ TheVector' = TheVector
      /\ TheCode' = TheCode
  BY <1>1, <1>3, GotoKeeps
<1>5. \A p, n : FrameAt(p, n)' <=> FrameAt(p, n)
  BY <1>1 DEF FrameAt
<1>6. OnTop'
  BY <1>1, <1>4, <1>5 DEF IInv, OnTop
<1>7. Registers' /\ Parameters'
  BY <1>1, <1>4 DEF IInv, Registers, Parameters, InHandler
<1>8. ReportSoFar'
  BY <1>1, <1>4 DEF IInv, ReportSoFar, InStub
<1>9. Slack' = Slack
  BY <1>4 DEF Slack
<1>10. args' \in ArgsType /\ reg' \in [Regs -> Words]
  BY <1>1, OldTypes
<1> QED
  BY <1>1, <1>2, <1>3, <1>6, <1>7, <1>8, <1>9, <1>10, QuietIInv

\* A paragraph of exception_handler: only the report changes.
LEMMA HandlerIInv ==
    ASSUME IInv, NEW from \in InHandler, NEW to \in InHandler,
           Goto(from, to), UNCHANGED <<stk, reg, args, ifl, cr2>>, ReportSoFar'
    PROVE  IInv'
<1>1. from \in InStub \cup InHandler /\ to \in InStub \cup InHandler
  OBVIOUS
<1>2. /\ epc = from /\ epc' = to /\ UNCHANGED <<abi, stub>>
      /\ Depth' = Depth /\ Current' = Current /\ TheVector' = TheVector
      /\ TheCode' = TheCode
  BY <1>1, GotoKeeps
<1>3. \A p, n : FrameAt(p, n)' <=> FrameAt(p, n)
  BY DEF FrameAt
<1>4. OnTop' /\ Registers'
  BY <1>2 DEF IInv, OnTop, Registers, InHandler
<1>5. Parameters'
  BY <1>2, <1>3 DEF IInv, Parameters
<1>6. Slack' = Slack
  BY <1>2 DEF Slack, InHandler
<1>7. args' \in ArgsType /\ reg' \in [Regs -> Words]
  BY OldTypes
<1>8. ifl' \in BOOLEAN
  BY OldTypes, Zenon
<1> QED
  BY <1>1, <1>4, <1>5, <1>6, <1>7, <1>8, QuietIInv

LEMMA PrintVectorIInv ==
    ASSUME IInv, PrintVector
    PROVE  IInv'
<1>1. /\ Goto("name", "code") /\ UNCHANGED <<stk, reg, args, ifl, cr2>>
      /\ report' = [report EXCEPT !.vector = args.vector]
  BY DEF PrintVector
<1>2. "name" \in InHandler /\ "code" \in InHandler
  BY DEF InHandler
<1>3. /\ epc = "name" /\ epc' = "code" /\ abi' = abi /\ TheVector' = TheVector
  BY <1>1, <1>2, GotoKeeps
<1>4. report = NoReport /\ report \in ReportType /\ args.vector \in Words
  BY <1>3, OldTypes DEF IInv, ReportSoFar, ArgsType
<1>5. /\ report' \in ReportType /\ report'.vector = args.vector
      /\ report'.code = Junk /\ report'.cr2 = Junk
  BY <1>1, <1>4 DEF ReportType, NoReport
<1>6. abi = "sysv64" => args.vector = TheVector
  BY <1>2, <1>3 DEF IInv, Parameters
<1>7. ReportSoFar'
  BY <1>3, <1>5, <1>6 DEF ReportSoFar, ReportType, InStub
<1> QED
  BY <1>1, <1>2, <1>7, HandlerIInv

\* Under the convention of its comment the handler tests the real vector.
LEMMA VectorTests ==
    ASSUME IInv, epc \in InHandler, abi = "sysv64", NEW S
    PROVE  VectorIn(S) = {StubVector(Current.vector) \in S}
<1>1. args.vector = Word("number", StubVector(Current.vector))
  BY DEF IInv, Parameters, TheVector
<1>2. args.vector.kind = "number" /\ args.vector.n = StubVector(Current.vector)
  BY <1>1, WordIs
<1> QED
  BY <1>2 DEF VectorIn

LEMMA PrintErrorCodeIInv ==
    ASSUME IInv, PrintErrorCode
    PROVE  IInv'
<1>1. /\ Goto("code", "cr2") /\ UNCHANGED <<stk, reg, args, ifl, cr2>>
  BY DEF PrintErrorCode
<1>2. PICK pushes \in VectorIn(EcMask) :
          report' = [report EXCEPT !.code = IF pushes THEN args.code ELSE report.code]
  BY DEF PrintErrorCode
<1>3. "code" \in InHandler /\ "cr2" \in InHandler
  BY DEF InHandler
<1>4. /\ epc = "code" /\ epc' = "cr2" /\ abi' = abi /\ TheVector' = TheVector
      /\ Current' = Current /\ Current.vector \in 0 .. 255
  BY <1>1, <1>3, GotoKeeps
<1>5. report \in ReportType /\ report.code = Junk /\ report.cr2 = Junk
      /\ args.code \in Words
  BY <1>4, OldTypes DEF IInv, ReportSoFar, ArgsType
<1>6. /\ report' \in ReportType /\ report'.vector = report.vector
      /\ report'.cr2 = Junk /\ report'.frame = report.frame
      /\ report'.code = IF pushes THEN args.code ELSE Junk
  BY <1>2, <1>5 DEF ReportType
<1>7. ASSUME abi = "sysv64"
      PROVE  report'.code = IF Current.vector \in PushesErrorCode
                            THEN Word("number", Current.code) ELSE Junk
  <2>1. pushes = (StubVector(Current.vector) \in EcMask)
    BY <1>2, <1>3, <1>4, <1>7, VectorTests, Zenon
  <2>2. StubVector(Current.vector) \in EcMask <=> Current.vector \in PushesErrorCode
    BY <1>4, StubVectorIs
  <2>3. args.code = TheCode
    BY <1>3, <1>4, <1>7 DEF IInv, Parameters
  <2>4. CASE Current.vector \in PushesErrorCode
    BY <1>6, <2>1, <2>2, <2>3, <2>4 DEF TheCode
  <2>5. CASE Current.vector \notin PushesErrorCode
    BY <1>6, <2>1, <2>2, <2>5
  <2> QED
    BY <2>4, <2>5
<1>8. ReportSoFar'
  BY <1>4, <1>6, <1>7 DEF IInv, ReportSoFar, ReportType, InStub
<1> QED
  BY <1>1, <1>3, <1>8, HandlerIInv

LEMMA PrintCr2IInv ==
    ASSUME IInv, PrintCr2
    PROVE  IInv'
<1>1. /\ Goto("cr2", "frame") /\ UNCHANGED <<stk, reg, args, ifl, cr2>>
  BY DEF PrintCr2
<1>2. PICK fault \in VectorIn({14}) :
          report' = [report EXCEPT !.cr2 = IF fault THEN cr2 ELSE report.cr2]
  BY DEF PrintCr2
<1>3. "cr2" \in InHandler /\ "frame" \in InHandler
  BY DEF InHandler
<1>4. /\ epc = "cr2" /\ epc' = "frame" /\ abi' = abi /\ TheVector' = TheVector
      /\ Current' = Current /\ Depth' = Depth /\ Current.vector \in 0 .. 255
  BY <1>1, <1>3, GotoKeeps
<1>5. report \in ReportType /\ report.cr2 = Junk /\ cr2 \in Words
  BY <1>4, OldTypes DEF IInv, ReportSoFar
<1>6. /\ report' \in ReportType /\ report'.vector = report.vector
      /\ report'.code = report.code /\ report'.frame = report.frame
      /\ report'.cr2 = IF fault THEN cr2 ELSE Junk
  BY <1>2, <1>5 DEF ReportType
<1>7. ASSUME abi = "sysv64"
      PROVE  report'.cr2 = IF Current.vector = 14 THEN Word("address", Depth) ELSE Junk
  <2>1. fault = (StubVector(Current.vector) \in {14})
    BY <1>2, <1>3, <1>4, <1>7, VectorTests, Zenon
  <2>2. StubVector(Current.vector) \in {14} <=> Current.vector = 14
    BY <1>4, StubVectorIs
  <2>3. Current.vector = 14 => cr2 = Word("address", Depth)
    BY <1>3, <1>4 DEF IInv, Path
  <2>4. CASE Current.vector = 14
    BY <1>6, <2>1, <2>2, <2>3, <2>4
  <2>5. CASE Current.vector # 14
    BY <1>6, <2>1, <2>2, <2>5
  <2> QED
    BY <2>4, <2>5
<1>8. ReportSoFar'
  BY <1>4, <1>6, <1>7 DEF IInv, ReportSoFar, ReportType, InStub
<1> QED
  BY <1>1, <1>3, <1>8, HandlerIInv

LEMMA PrintFrameIInv ==
    ASSUME IInv, PrintFrame
    PROVE  IInv'
<1>1. /\ Goto("frame", "halt") /\ UNCHANGED <<stk, reg, args, ifl, cr2>>
      /\ report' = [report EXCEPT !.frame =
                       IF args.frame.kind = "pointer" THEN At(args.frame.n) ELSE <<>>]
  BY DEF PrintFrame
<1>2. "frame" \in InHandler /\ "halt" \in InHandler
  BY DEF InHandler
<1>3. /\ epc = "frame" /\ epc' = "halt" /\ abi' = abi /\ TheVector' = TheVector
      /\ Current' = Current /\ Depth' = Depth /\ Depth \in Nat /\ stk \in Seq(Words)
      /\ Depth > 0
  BY <1>1, <1>2, GotoKeeps
<1>4. report \in ReportType
  BY OldTypes
<1>5. Frame(Depth)' = Frame(Depth)
  BY <1>3 DEF Frame
<1>6. /\ At(args.frame.n) \in Seq(Words) \/ args.frame.kind # "pointer"
      /\ abi = "sysv64" =>
            args.frame.kind = "pointer" /\ At(args.frame.n) = Frame(Depth)
  <2>1. CASE abi = "sysv64"
    <3>1. args.frame.kind = "pointer" /\ At(args.frame.n) = Frame(Depth)
      BY <1>2, <1>3, <2>1, AtIsFrame DEF IInv, Parameters
    <3>2. Frame(Depth) \in Seq(Words)
      BY <1>3, WordTypes DEF Frame
    <3> QED
      BY <3>1, <3>2
  <2>2. CASE abi # "sysv64"
    BY <1>2, <1>3, <2>2, WordTypes DEF IInv, Parameters
  <2> QED
    BY <2>1, <2>2
<1>7. /\ report' \in ReportType /\ report'.vector = report.vector
      /\ report'.code = report.code /\ report'.cr2 = report.cr2
      /\ abi = "sysv64" => report'.frame = Frame(Depth)
  <2> DEFINE x == IF args.frame.kind = "pointer" THEN At(args.frame.n) ELSE <<>>
  <2>1. x \in Seq(Words) /\ (abi = "sysv64" => x = Frame(Depth))
    BY <1>6
  <2>2. report' = [report EXCEPT !.frame = x]
    BY <1>1
  <2> HIDE DEF x
  <2> QED
    BY <1>4, <2>1, <2>2 DEF ReportType
<1>8. ReportSoFar'
  BY <1>3, <1>5, <1>7 DEF IInv, ReportSoFar, ReportType, InStub
<1> QED
  BY <1>1, <1>2, <1>8, HandlerIInv

LEMMA HaltIInv ==
    ASSUME IInv, Halt
    PROVE  IInv'
<1>1. Goto("halt", "halted") /\ UNCHANGED <<stk, reg, args, ifl, cr2, report>>
  BY DEF Halt
<1>2. "halt" \in InHandler /\ "halted" \in InHandler
  BY DEF InHandler
<1>3. /\ epc = "halt" /\ epc' = "halted" /\ abi' = abi /\ TheVector' = TheVector
      /\ Current' = Current /\ Depth' = Depth
  BY <1>1, <1>2, GotoKeeps
<1>4. Frame(Depth)' = Frame(Depth)
  BY <1>3 DEF Frame
<1>5. ReportSoFar'
  BY <1>1, <1>3, <1>4 DEF IInv, ReportSoFar, InStub
<1> QED
  BY <1>1, <1>2, <1>5, HandlerIInv

\* pop rsi takes the error code and no word of a frame; xor rsi, rsi nothing.
LEMMA LoadRsiIInv ==
    ASSUME IInv, LoadRsi
    PROVE  IInv'
<1>1. Goto("rsi", "mov_rdx") /\ UNCHANGED <<args, cr2, report>>
  BY DEF LoadRsi
<1>2. ifl' \in BOOLEAN
  BY OldTypes, Zenon DEF LoadRsi
<1>3. "rsi" \in InStub \cup InHandler /\ "mov_rdx" \in InStub \cup InHandler
  BY DEF InStub
<1>4. /\ epc = "rsi" /\ epc' = "mov_rdx" /\ UNCHANGED <<abi, stub>> /\ idtr' = idtr
      /\ Depth' = Depth /\ Current' = Current /\ TheVector' = TheVector
      /\ TheCode' = TheCode /\ Len(stk) \in Nat /\ stk \in Seq(Words) /\ Depth \in Nat
      /\ Current \in [vector: 0 .. 255, code: Nat, cr2: Nat]
      /\ stub = StubVector(Current.vector) /\ TheCode \in Words
  BY <1>1, <1>3, GotoKeeps
<1>5. stub \in StubEc <=> Current.vector \in PushesErrorCode
  BY <1>4, StubVectorIs
<1>6. args' \in ArgsType
  BY <1>1, OldTypes
<1>7. ReportSoFar' /\ Parameters'
  BY <1>1, <1>4 DEF IInv, ReportSoFar, Parameters, InStub, InHandler
<1>8. ASSUME reg' = [reg EXCEPT !["rsi"] = TheCode]
      PROVE  reg' \in [Regs -> Words] /\ Registers'
  <2>1. /\ reg' \in [Regs -> Words] /\ reg'["rdi"] = reg["rdi"]
        /\ reg'["rsi"] = TheCode /\ reg'["r8"] = reg["r8"]
    BY <1>4, <1>8, OldTypes DEF Regs
  <2> QED
    BY <1>4, <2>1 DEF IInv, Registers
<1>9. CASE Current.vector \notin PushesErrorCode
  <2>1. stk' = stk /\ reg' = [reg EXCEPT !["rsi"] = Zero]
    BY <1>5, <1>9 DEF LoadRsi
  <2>2. Zero = TheCode
    BY <1>9, WordTypes DEF TheCode
  <2>3. reg' \in [Regs -> Words] /\ Registers'
    BY <1>8, <2>1, <2>2
  <2>4. \A p, n : FrameAt(p, n)' <=> FrameAt(p, n)
    BY <2>1 DEF FrameAt
  <2>5. OnTop'
    BY <1>4, <1>9, <2>1, <2>4 DEF IInv, OnTop
  <2>6. Slack' = Slack
    BY <1>4, <1>9 DEF Slack
  <2> QED
    BY <1>1, <1>2, <1>3, <1>6, <1>7, <2>1, <2>3, <2>5, <2>6, QuietIInv
<1>10. CASE Current.vector \in PushesErrorCode
  <2>1. stk' = SubSeq(stk, 1, Len(stk) - 1)
        /\ reg' = [reg EXCEPT !["rsi"] = stk[Len(stk)]]
    BY <1>5, <1>10 DEF LoadRsi
  <2>2. /\ Len(stk) >= 6 /\ FrameAt(Len(stk) - 1, Depth)
        /\ stk[Len(stk)] = Word("number", Current.code)
    BY <1>4, <1>10 DEF IInv, OnTop
  <2>3. TheCode = Word("number", Current.code)
    BY <1>10 DEF TheCode
  <2>4. reg' \in [Regs -> Words] /\ Registers'
    BY <1>8, <2>1, <2>2, <2>3
  <2>5. /\ stk' \in Seq(Words) /\ Len(stk') = Len(stk) - 1
        /\ \A i \in 1 .. Len(stk) - 1 : stk'[i] = stk[i]
    <3> DEFINE m == Len(stk) - 1
    <3>1. m \in Int /\ 1 \in Int /\ \A i \in 1 .. m : stk[i] \in Words
      BY <1>4, ElementOfSeq
    <3>2. m >= 1 /\ m - 1 + 1 = m /\ \A i \in 1 .. m : 1 + i - 1 = i
      BY <1>4, <2>2
    <3> HIDE DEF m
    <3>3. /\ SubSeq(stk, 1, m) \in Seq(Words)
          /\ Len(SubSeq(stk, 1, m)) = IF 1 <= m THEN m - 1 + 1 ELSE 0
          /\ \A i \in 1 .. m - 1 + 1 : SubSeq(stk, 1, m)[i] = stk[1 + i - 1]
      BY <3>1, SubSeqProperties
    <3>4. /\ SubSeq(stk, 1, m) \in Seq(Words) /\ Len(SubSeq(stk, 1, m)) = m
          /\ \A i \in 1 .. m : SubSeq(stk, 1, m)[i] = stk[i]
      BY <3>1, <3>2, <3>3
    <3> QED
      BY <2>1, <3>4 DEF m
  <2>6. \A p \in 5 .. Len(stk) - 1 : \A n : FrameAt(p, n) => FrameAt(p, n)'
    <3> SUFFICES ASSUME NEW p \in 5 .. Len(stk) - 1, NEW n, FrameAt(p, n)
                 PROVE  FrameAt(p, n)'
      OBVIOUS
    <3>1. /\ p - 4 \in 1 .. Len(stk) - 1 /\ p - 3 \in 1 .. Len(stk) - 1
          /\ p - 2 \in 1 .. Len(stk) - 1 /\ p - 1 \in 1 .. Len(stk) - 1
          /\ p \in 1 .. Len(stk) - 1
      BY <1>4
    <3> QED
      BY <2>5, <3>1 DEF FrameAt
  <2>7. OnTop'
    BY <1>4, <2>2, <2>5, <2>6 DEF OnTop
  <2>8. Fresh'
    BY <1>4, <2>5 DEF IInv, Fresh
  <2>9. Frames'
    <3> SUFFICES ASSUME idtr = "kernel", NEW n \in 1 .. Depth
                 PROVE  \E p \in 5 .. Len(stk') : FrameAt(p, n)'
                        /\ \A q \in 1 .. Len(stk') : stk'[q] = Word("rip", n) => q = p
      BY <1>4 DEF Frames
    <3>1. PICK p \in 5 .. Len(stk) : FrameAt(p, n)
               /\ \A q \in 1 .. Len(stk) : stk[q] = Word("rip", n) => q = p
      BY DEF IInv, Frames
    <3>2. p # Len(stk)
      BY <2>2, <3>1, WordIs DEF FrameAt
    <3>3. p \in 5 .. Len(stk') /\ FrameAt(p, n)'
      BY <1>4, <2>5, <2>6, <3>1, <3>2
    <3>4. \A q \in 1 .. Len(stk') : stk'[q] = Word("rip", n) => q = p
      BY <1>4, <2>5, <3>1
    <3> QED
      BY <3>3, <3>4
  <2>10. Room'
    <3>1. Slack = HandlerWords /\ Slack' = HandlerWords + 1
      BY <1>4, <1>10, StackAssumption DEF Slack
    <3> QED
      BY <1>4, <2>5, <3>1, StackAssumption DEF IInv, Room
  <2> QED
    BY <1>1, <1>2, <1>3, <1>6, <1>7, <2>4, <2>5, <2>7, <2>8, <2>9, <2>10, GotoIInv
<1> QED
  BY <1>9, <1>10

\* The call and the handler's own words come on top of the frame.
LEMMA CallHandlerIInv ==
    ASSUME IInv, CallHandler
    PROVE  IInv'
<1>0. PICK h \in InUse(HandlerWords) :
             stk' = Append(stk, Word("return", Depth)) \o h
  BY DEF CallHandler
<1>1. /\ Goto("call", "name") /\ UNCHANGED <<reg, cr2, report>>
      /\ args' = IF abi = "sysv64"
                 THEN [vector |-> reg["rdi"], code |-> reg["rsi"], frame |-> reg["rdx"]]
                 ELSE [vector |-> reg["rcx"], code |-> reg["rdx"], frame |-> reg["r8"]]
  BY DEF CallHandler
<1>2. ifl' \in BOOLEAN
  BY OldTypes, Zenon DEF CallHandler
<1>3. "call" \in InStub \cup InHandler /\ "name" \in InStub \cup InHandler
  BY DEF InStub, InHandler
<1>4. /\ epc = "call" /\ epc' = "name" /\ UNCHANGED <<abi, stub>> /\ idtr' = idtr
      /\ Depth' = Depth /\ Current' = Current /\ TheVector' = TheVector
      /\ TheCode' = TheCode /\ Len(stk) \in Nat /\ stk \in Seq(Words) /\ Depth \in Nat
  BY <1>1, <1>3, GotoKeeps
<1>5. reg' \in [Regs -> Words] /\ args' \in ArgsType
  BY <1>1, OldTypes DEF Regs, ArgsType
<1>6. /\ stk' \in Seq(Words)
      /\ Len(stk') \in Len(stk) + 1 .. Len(stk) + 1 + HandlerWords
      /\ \A i \in 1 .. Len(stk) : stk'[i] = stk[i]
      /\ \A i \in Len(stk) + 1 .. Len(stk') : stk'[i].kind # "rip"
  <2> DEFINE a == Append(stk, Word("return", Depth))
  <2>1. /\ a \in Seq(Words) /\ Len(a) = Len(stk) + 1
        /\ \A i \in 1 .. Len(stk) : a[i] = stk[i]
        /\ a[Len(stk) + 1] = Word("return", Depth)
    <3>1. Word("return", Depth) \in Words
      BY <1>4, WordTypes
    <3> QED
      BY <1>4, <3>1, AppendProperties
  <2>2. h \in Seq(Words) /\ Len(h) \in 0 .. HandlerWords
        /\ \A i \in 1 .. Len(h) : h[i] = Junk
    BY StackAssumption, InUseIs
  <2>3. stk' = a \o h
    BY <1>0
  <2> HIDE DEF a
  <2>4. a \in Seq(Words) /\ h \in Seq(Words)
    BY <2>1, <2>2
  <2>5. /\ stk' \in Seq(Words) /\ Len(stk') = Len(a) + Len(h)
        /\ \A i \in 1 .. Len(a) + Len(h) :
              stk'[i] = IF i <= Len(a) THEN a[i] ELSE h[i - Len(a)]
    BY <2>3, <2>4, ConcatProperties
  <2>6. ASSUME NEW i \in Len(stk) + 1 .. Len(stk') PROVE stk'[i].kind # "rip"
    <3>1. CASE i = Len(stk) + 1
      <4>1. stk'[i] = Word("return", Depth)
        BY <1>4, <2>1, <2>2, <2>5, <3>1, StackAssumption
      <4> QED
        BY <4>1, WordIs
    <3>2. CASE i > Len(stk) + 1
      <4>1. i - Len(a) \in 1 .. Len(h) /\ stk'[i] = h[i - Len(a)]
        BY <1>4, <2>1, <2>2, <2>5, <3>2, StackAssumption
      <4> QED
        BY <4>1, <2>2, WordTypes
    <3> QED
      BY <1>4, <3>1, <3>2
  <2>7. Len(stk') \in Len(stk) + 1 .. Len(stk) + 1 + HandlerWords
    BY <1>4, <2>1, <2>2, <2>5, StackAssumption
  <2>8. \A i \in 1 .. Len(stk) : stk'[i] = stk[i]
    BY <1>4, <2>1, <2>2, <2>5, StackAssumption
  <2> QED
    BY <2>5, <2>6, <2>7, <2>8
<1>7. /\ Frames' /\ Fresh'
      /\ \A p \in 5 .. Len(stk) : \A n : FrameAt(p, n) => FrameAt(p, n)'
  <2>1. Len(stk') \in Nat /\ Len(stk') >= Len(stk)
    BY <1>4, <1>6, StackAssumption
  <2> QED
    BY <1>4, <1>6, <2>1, Grown DEF IInv
<1>8. OnTop' /\ Registers'
  BY <1>1, <1>4 DEF IInv, OnTop, Registers
<1>9. Parameters'
  <2>1. CASE abi = "sysv64"
    <3>1. /\ args'.vector = TheVector /\ args'.code = TheCode
          /\ args'.frame = Word("pointer", Len(stk))
      BY <1>1, <1>4, <2>1 DEF IInv, Registers
    <3>2. args'.frame.kind = "pointer" /\ args'.frame.n = Len(stk)
      BY <3>1, WordIs
    <3>3. PICK p \in 5 .. Len(stk), n \in Nat :
              p = Len(stk) /\ n = Depth /\ FrameAt(p, n)
      BY <1>4 DEF IInv, OnTop
    <3>4. FrameAt(p, n)'
      BY <1>7, <3>3
    <3>5. p \in 5 .. Len(stk') /\ p = args'.frame.n /\ n = Depth'
      BY <1>4, <1>6, <3>2, <3>3, StackAssumption
    <3>6. FrameAt(args.frame.n, Depth)'
      BY <3>4, <3>5 DEF FrameAt
    <3> QED
      BY <1>4, <2>1, <3>1, <3>2, <3>5, <3>6 DEF Parameters
  <2>2. CASE abi # "sysv64"
    BY <1>1, <1>4, <2>2 DEF IInv, Registers, Parameters
  <2> QED
    BY <2>1, <2>2
<1>10. ReportSoFar'
  BY <1>1, <1>4 DEF IInv, ReportSoFar, InStub
<1>11. Room'
  <2>1. Slack = HandlerWords + 1 /\ Slack' = 0
    BY <1>4 DEF Slack
  <2> QED
    BY <1>4, <1>6, <2>1, StackAssumption DEF IInv, Room
<1> QED
  BY <1>1, <1>2, <1>3, <1>5, <1>6, <1>7, <1>8, <1>9, <1>10, <1>11, GotoIInv

\* One more exception is on record, and it is the current one.
LEMMA RaisedIs ==
    ASSUME TypeOK, NEW v \in 0 .. 255, NEW c \in Nat,
           raised' = Append(raised, [vector |-> v, code |-> c, cr2 |-> Depth + 1])
    PROVE  /\ Depth \in Nat /\ Depth' = Depth + 1
           /\ Current' = [vector |-> v, code |-> c, cr2 |-> Depth + 1]
           /\ raised' \in Seq([vector: 0 .. 255, code: Nat, cr2: Nat])
<1> DEFINE R == [vector: 0 .. 255, code: Nat, cr2: Nat]
           x == [vector |-> v, code |-> c, cr2 |-> Depth + 1]
<1>1. Depth \in Nat /\ raised \in Seq(R)
  BY DepthIs DEF TypeOK
<1>2. x \in R
  BY <1>1
<1>3. raised' = Append(raised, x)
  OBVIOUS
<1> HIDE DEF R, x
<1>4. /\ raised' \in Seq(R) /\ Len(raised') = Len(raised) + 1
      /\ raised'[Len(raised) + 1] = x
  BY <1>1, <1>2, <1>3, AppendProperties
<1> QED
  BY <1>1, <1>4 DEF Depth, Current, R, x

\* An exception arrives, wherever the previous one had got to.
LEMMA RaiseIInv ==
    ASSUME IInv, NEW v \in Vectors, NEW c \in Codes, Raise(v, c)
    PROVE  IInv'
<1>1. v \in 0 .. 255 /\ c \in Nat
  BY VectorsAssumption, CodesAssumption
<1>2. idtr = "kernel" /\ stored = 256
  BY DEF IInv, TablesSoFar, Raise, Caught
<1>3. stub' = StubVector(v)
  BY <1>1, <1>2, GatesLead DEF Raise
<1>4. /\ Depth \in Nat /\ Depth' = Depth + 1
      /\ Current' = [vector |-> v, code |-> c, cr2 |-> Depth + 1]
      /\ raised' \in Seq([vector: 0 .. 255, code: Nat, cr2: Nat])
  BY <1>1, RaisedIs DEF IInv, Raise
<1>5. PICK L, d, p0 : L = Len(AlignedStack) /\ d = Depth + 1 /\ p0 = L + 5
  OBVIOUS
<1>6. /\ L \in {Len(stk), Len(stk) + 1} /\ Len(stk) \in Nat
      /\ stk' \in Seq(Words)
      /\ Len(stk') = L + 5 + (IF v \in PushesErrorCode THEN 1 ELSE 0)
      /\ \A i \in 1 .. Len(stk) : stk'[i] = stk[i]
      /\ L = Len(stk) + 1 => stk'[L] = Junk
      /\ stk'[L + 1] = Word("ss", d) /\ stk'[L + 2] = Word("rsp", d)
      /\ stk'[L + 3] = Word("rflags", d) /\ stk'[L + 4] = Word("cs", d)
      /\ stk'[L + 5] = Word("rip", d)
      /\ v \in PushesErrorCode => stk'[L + 6] = Word("number", c)
  <2>1. stk' = AlignedStack \o Frame(Depth + 1)
                 \o (IF v \in PushesErrorCode THEN <<Word("number", c)>> ELSE <<>>)
    BY DEF Raise
  <2>2. TypeOK /\ L = Len(AlignedStack) /\ d = Depth + 1
    BY <1>5 DEF IInv
  <2>3. Pushed(L, d, v, c)
    BY <1>1, <2>1, <2>2, RaisedStack
  <2> QED
    BY <2>3, Zenon DEF Pushed
<1>7. /\ UNCHANGED <<tpc, gdtr, idtr, stored, abi, reg, args>>
      /\ epc' = "mov_rdi" /\ report' = NoReport
      /\ cr2' = IF v = 14 THEN Word("address", d) ELSE cr2
  BY <1>5 DEF Raise, tvars
<1>8. L \in Nat /\ d \in Nat /\ d = Depth' /\ d > Depth /\ p0 \in Nat /\ p0 = L + 5
  BY <1>4, <1>5, <1>6
<1>9. FrameAt(p0, d)'
  <2>1. p0 - 4 = L + 1 /\ p0 - 3 = L + 2 /\ p0 - 2 = L + 3 /\ p0 - 1 = L + 4 /\ p0 = L + 5
    BY <1>8
  <2>2. /\ stk'[p0 - 4] = Word("ss", d) /\ stk'[p0 - 3] = Word("rsp", d)
        /\ stk'[p0 - 2] = Word("rflags", d) /\ stk'[p0 - 1] = Word("cs", d)
        /\ stk'[p0] = Word("rip", d)
    BY <1>6, <2>1, Zenon
  <2> QED
    BY <2>2 DEF FrameAt
<1>10. TypeOK'
  <2>1. ifl' \in BOOLEAN
    BY Zenon DEF Raise
  <2>2. cr2' \in Words
    BY <1>7, <1>8, OldTypes, WordTypes
  <2>3. /\ NoReport.vector \in Words /\ NoReport.code \in Words /\ NoReport.cr2 \in Words
        /\ NoReport.frame \in Seq(Words)
    BY WordTypes DEF NoReport
  <2>4. stub' \in StubNumbers
    BY <1>1, <1>3, StubVectorIs
  <2>5. epc' \in Points
    BY <1>7 DEF Points
  <2> QED
    BY <1>4, <1>6, <1>7, <2>1, <2>2, <2>3, <2>4, <2>5 DEF IInv, TypeOK
<1>11. TablesSoFar' /\ Path'
  BY <1>2, <1>3, <1>4, <1>7, <1>8 DEF IInv, TablesSoFar, Path, InStub, InHandler
<1>12. OnTop'
  <2>1. CASE v \in PushesErrorCode
    <3>1. Len(stk') = L + 6 /\ L + 6 >= 6 /\ L + 6 - 1 = p0
      BY <1>6, <1>8, <2>1
    <3>2. FrameAt(Len(stk) - 1, Depth)'
      BY <1>8, <1>9, <3>1 DEF FrameAt
    <3> QED
      BY <1>4, <1>6, <1>7, <2>1, <3>1, <3>2 DEF OnTop
  <2>2. CASE v \notin PushesErrorCode
    <3>1. Len(stk') = p0 /\ p0 >= 5
      BY <1>6, <1>8, <2>2
    <3>2. FrameAt(Len(stk), Depth)'
      BY <1>8, <1>9, <3>1 DEF FrameAt
    <3> QED
      BY <1>4, <1>7, <2>2, <3>1, <3>2 DEF OnTop
  <2> QED
    BY <2>1, <2>2
<1>13. Registers' /\ Parameters'
  BY <1>7 DEF IInv, Registers, Parameters, InHandler
<1>14. ReportSoFar'
  <2>1. NoReport \in ReportType
    BY WordTypes DEF NoReport, ReportType
  <2> QED
    BY <1>7, <2>1 DEF ReportSoFar, ReportType
<1>15. \A q \in 1 .. Len(stk') : stk'[q].kind = "rip" => q \in 1 .. Len(stk) \/ q = p0
  <2> SUFFICES ASSUME NEW q \in 1 .. Len(stk'), stk'[q].kind = "rip",
                      q \notin 1 .. Len(stk), q # p0
               PROVE  FALSE
    OBVIOUS
  <2>1. \/ q = L /\ L = Len(stk) + 1
        \/ q = L + 1 \/ q = L + 2 \/ q = L + 3 \/ q = L + 4
        \/ q = L + 6 /\ v \in PushesErrorCode
    <3>1. CASE v \in PushesErrorCode
      <4>1. Len(stk') = L + 6 /\ q \in Int /\ (L = Len(stk) \/ L = Len(stk) + 1)
        BY <1>6, <1>8, <3>1
      <4> QED
        BY <1>8, <3>1, <4>1
    <3>2. CASE v \notin PushesErrorCode
      <4>1. Len(stk') = L + 5 /\ q \in Int /\ (L = Len(stk) \/ L = Len(stk) + 1)
        BY <1>6, <1>8, <3>2
      <4> QED
        BY <1>8, <4>1
    <3> QED
      BY <3>1, <3>2
  <2>2. stk'[q] \in {Junk, Word("ss", d), Word("rsp", d), Word("rflags", d),
                     Word("cs", d), Word("number", c)}
    BY <1>6, <2>1, Zenon
  <2> QED
    BY <2>2, WordIs, WordTypes
<1>16. Fresh'
  <2> SUFFICES ASSUME NEW q \in 1 .. Len(stk'), stk'[q].kind = "rip"
               PROVE  stk'[q].n <= d
    BY <1>8 DEF Fresh
  <2>1. CASE q \in 1 .. Len(stk)
    <3>1. stk[q] \in Words /\ stk[q].n <= Depth
      BY <1>6, <2>1, ElementOfSeq DEF IInv, TypeOK, Fresh
    <3> QED
      BY <1>4, <1>6, <1>8, <2>1, <3>1 DEF Words
  <2>2. CASE q = p0
    BY <1>6, <1>8, <2>2, WordIs
  <2> QED
    BY <1>15, <2>1, <2>2
<1>17. Frames'
  <2> SUFFICES ASSUME NEW n \in 1 .. d
               PROVE  \E p \in 5 .. Len(stk') : FrameAt(p, n)'
                      /\ \A q \in 1 .. Len(stk') : stk'[q] = Word("rip", n) => q = p
    BY <1>8 DEF Frames
  <2>1. \A q \in 1 .. Len(stk') : stk'[q] = Word("rip", n) =>
            q \in 1 .. Len(stk) \/ q = p0
    BY <1>15, WordIs
  <2>2. CASE n = d
    <3>1. p0 \in 5 .. Len(stk') /\ FrameAt(p0, n)'
      BY <1>6, <1>8, <1>9, <2>2
    <3>2. \A q \in 1 .. Len(stk) : stk'[q] # Word("rip", n)
      <4> SUFFICES ASSUME NEW q \in 1 .. Len(stk), stk'[q] = Word("rip", n) PROVE FALSE
        OBVIOUS
      <4>1. stk[q].kind = "rip" /\ stk[q].n = d
        BY <1>6, <2>2, WordIs, SMTT(30)
      <4>2. d <= Depth
        BY <4>1 DEF IInv, Fresh
      <4> QED
        BY <1>4, <1>8, <4>2
    <3> QED
      BY <2>1, <3>1, <3>2
  <2>3. CASE n # d
    <3>1. n \in 1 .. Depth
      BY <1>4, <1>5, <2>3
    <3>2. PICK p \in 5 .. Len(stk) : FrameAt(p, n)
               /\ \A q \in 1 .. Len(stk) : stk[q] = Word("rip", n) => q = p
      BY <1>2, <3>1 DEF IInv, Frames
    <3>3. /\ p - 4 \in 1 .. Len(stk) /\ p - 3 \in 1 .. Len(stk) /\ p - 2 \in 1 .. Len(stk)
          /\ p - 1 \in 1 .. Len(stk) /\ p \in 1 .. Len(stk) /\ p \in 5 .. Len(stk')
      BY <1>6, <1>8
    <3>4. FrameAt(p, n)'
      BY <1>6, <3>2, <3>3 DEF FrameAt
    <3>5. stk'[p0] # Word("rip", n)
      BY <1>6, <1>8, <2>3, WordIs
    <3>6. \A q \in 1 .. Len(stk') : stk'[q] = Word("rip", n) => q = p
      BY <1>6, <2>1, <3>2, <3>5
    <3> QED
      BY <3>3, <3>4, <3>6
  <2> QED
    BY <2>2, <2>3
<1>18. Room'
  <2> DEFINE per == 7 + HandlerWords
             b == Depth * per
  <2>1. per \in Nat /\ b \in Nat /\ HandlerWords \in Nat /\ KernelWords \in Nat
    BY <1>4, StackAssumption
  <2>2. d * per = b + per
    BY <1>4, <1>5, <2>1
  <2>3. Len(stk) <= KernelWords + b
    <3>1. Slack \in Nat
      BY StackAssumption DEF Slack
    <3>2. Len(stk) + Slack <= KernelWords + b
      BY DEF IInv, Room
    <3> HIDE DEF b
    <3> QED
      BY <1>6, <2>1, <3>1, <3>2
  <2>4. Slack' = HandlerWords + (IF v \in PushesErrorCode THEN 0 ELSE 1)
    BY <1>4, <1>7 DEF Slack
  <2> HIDE DEF b
  <2>5. Len(stk') + Slack' <= KernelWords + b + per
    <3>1. CASE v \in PushesErrorCode
      BY <1>6, <2>1, <2>3, <2>4, <3>1
    <3>2. CASE v \notin PushesErrorCode
      BY <1>6, <2>1, <2>3, <2>4, <3>2
    <3> QED
      BY <3>1, <3>2
  <2> HIDE DEF per
  <2>6. Len(stk') + Slack' <= KernelWords + d * per
    BY <2>1, <2>2, <2>5
  <2> QED
    BY <1>8, <2>6 DEF Room, per
<1> QED
  BY <1>10, <1>11, <1>12, <1>13, <1>14, <1>16, <1>17, <1>18 DEF IInv

\* An exception is lost only while the firmware's IDT is loaded.
LEMMA RaiseUncaughtIInv ==
    ASSUME IInv, NEW v \in Vectors, NEW c \in Codes, RaiseUncaught(v, c)
    PROVE  IInv'
<1>1. v \in 0 .. 255 /\ c \in Nat
  BY VectorsAssumption, CodesAssumption
<1>2. idtr = "firmware"
  <2>1. CASE idtr = "kernel"
    <3>1. stored = 256
      BY <2>1 DEF IInv, TablesSoFar
    <3> QED
      BY <1>1, <2>1, <3>1, GatesLead DEF RaiseUncaught
  <2> QED
    BY <2>1 DEF IInv, TypeOK
<1>3. /\ Depth \in Nat /\ Depth' = Depth + 1
      /\ raised' \in Seq([vector: 0 .. 255, code: Nat, cr2: Nat])
  BY <1>1, RaisedIs DEF IInv, RaiseUncaught
<1>4. /\ UNCHANGED <<tpc, gdtr, idtr, stored, abi, stub, stk, reg, args, cr2, report>>
      /\ epc' \in {"firmware", "reset"} /\ (epc' = "reset" => gdtr = "kernel")
  BY <1>2 DEF RaiseUncaught, GoesToFirmware, IInv, TypeOK, tvars
<1>5. TypeOK'
  <2>1. ifl' \in BOOLEAN
    BY OldTypes, Zenon DEF RaiseUncaught
  <2> QED
    BY <1>3, <1>4, <2>1 DEF IInv, TypeOK, Points
<1>6. TablesSoFar' /\ Path' /\ OnTop' /\ Registers' /\ Parameters'
  BY <1>2, <1>4
     DEF IInv, TablesSoFar, Path, OnTop, Registers, Parameters, InStub, InHandler
<1>7. ReportSoFar'
  BY <1>4 DEF IInv, ReportSoFar, InStub
<1>8. Frames' /\ Fresh'
  <2>1. \A q \in 1 .. Len(stk) : stk[q] \in Words
    BY ElementOfSeq DEF IInv, TypeOK
  <2> QED
    BY <1>2, <1>3, <1>4, <2>1, SMTT(30) DEF IInv, Frames, Fresh, Words
<1>9. Room'
  <2> DEFINE per == 7 + HandlerWords
             b == Depth * per
  <2>1. per \in Nat /\ b \in Nat /\ Len(stk) \in Nat /\ KernelWords \in Nat
    BY <1>3, StackAssumption, LenProperties DEF IInv, TypeOK
  <2>2. (Depth + 1) * per = b + per
    BY <1>3, <2>1
  <2>3. Slack \in Nat /\ Slack' = 0
    BY <1>4, StackAssumption DEF Slack
  <2>4. Len(stk) + Slack <= KernelWords + b
    BY DEF IInv, Room
  <2> HIDE DEF per, b
  <2>5. Len(stk) + 0 <= KernelWords + (Depth + 1) * per
    BY <2>1, <2>2, <2>3, <2>4
  <2> QED
    BY <1>3, <1>4, <2>3, <2>5 DEF Room, per
<1> QED
  BY <1>5, <1>6, <1>7, <1>8, <1>9 DEF IInv

LEMMA NextIInv == IInv /\ [Next]_vars => IInv'
<1> SUFFICES ASSUME IInv, [Next]_vars PROVE IInv'
  OBVIOUS
<1>1. CASE SetUp
  BY <1>1, SetUpIInv
<1>2. CASE Step
  BY <1>2, MovRdiIInv, LoadRsiIInv, MovRdxIInv, CliIInv, CallHandlerIInv,
     PrintVectorIInv, PrintErrorCodeIInv, PrintCr2IInv, PrintFrameIInv, HaltIInv
     DEF Step
<1>3. CASE \E v \in Vectors, c \in Codes : Raise(v, c) \/ RaiseUncaught(v, c)
  BY <1>3, RaiseIInv, RaiseUncaughtIInv
<1>4. CASE UNCHANGED vars
  <2>1. /\ UNCHANGED <<abi, epc, stub, stk, reg, args, cr2, raised, report>>
        /\ UNCHANGED <<tpc, gdtr, idtr, stored>>
    BY <1>4 DEF vars, tvars, evars
  <2>2. Depth' = Depth /\ Current' = Current /\ TheVector' = TheVector
        /\ TheCode' = TheCode /\ Frame(Depth)' = Frame(Depth)
    BY <2>1 DEF Depth, Current, TheVector, TheCode, Frame
  <2>3. ifl' \in BOOLEAN
    BY <1>4, OldTypes, Zenon DEF vars, evars
  <2>4. TypeOK'
    BY <2>1, <2>3 DEF IInv, TypeOK
  <2>5. TablesSoFar' /\ Path'
    BY <2>1, <2>2 DEF IInv, TablesSoFar, Path
  <2>6. Frames' /\ Fresh' /\ \A p, n : FrameAt(p, n)' <=> FrameAt(p, n)
    BY <2>1, <2>2, Still DEF IInv
  <2>7. OnTop' /\ Registers' /\ Parameters'
    BY <2>1, <2>2, <2>6 DEF IInv, OnTop, Registers, Parameters
  <2>8. ReportSoFar'
    BY <2>1, <2>2 DEF IInv, ReportSoFar
  <2>9. Room'
    BY <2>1, <2>2 DEF IInv, Room, Slack
  <2> QED
    BY <2>4, <2>5, <2>6, <2>7, <2>8, <2>9 DEF IInv
<1>5. CASE KernelCalls
  BY <1>5, KernelCallsIInv
<1> QED
  BY <1>1, <1>2, <1>3, <1>4, <1>5 DEF Next

-----------------------------------------------------------------------------
(* The theorems. *)

\* The inductive invariant: nothing returns from an exception, the frame of
\* the one under way is where its stub expects it, and every earlier frame is
\* still there.
THEOREM ExceptionsInvariant == Spec => []IInv
<1> QED
  BY InitIInv, NextIInv, PTL DEF Spec

\* Type correctness; in particular no stub pops an empty stack.
THEOREM ExceptionsTypeOK == Spec => []TypeOK
<1>1. IInv => TypeOK
  BY DEF IInv
<1> QED
  BY <1>1, ExceptionsInvariant, PTL

\* gdt_init's selectors are taken; an exception is lost only before lidt; and
\* every one of the 256 gates leads to its stub, wherever the stubs lie.
THEOREM ExceptionsTablesCatch == Spec => []TablesCatch
<1>1. ASSUME IInv PROVE TablesCatch
  <2>1. /\ tpc # "fault" /\ (epc \in {"firmware", "reset"} => idtr = "firmware")
        /\ (epc = "reset" => gdtr = "kernel")
        /\ (tpc = "live" => stored = 256 /\ idtr = "kernel")
    BY <1>1 DEF IInv, TablesSoFar, Path
  <2> QED
    BY <2>1, GatesLead DEF TablesCatch
<1> QED
  BY <1>1, ExceptionsInvariant, PTL

\* The stubs hand exception_handler the vector, the error code and the frame
\* of the exception just taken, for every vector and every nesting.
THEOREM ExceptionsStubsDeliver == Spec => []StubsDeliver
<1>1. ASSUME IInv PROVE StubsDeliver
  <2> SUFFICES ASSUME epc = "call"
               PROVE  /\ reg["rdi"] = TheVector /\ reg["rsi"] = TheCode
                      /\ reg["rdx"].kind = "pointer"
                      /\ At(reg["rdx"].n) = Frame(Depth)
    BY DEF StubsDeliver, TheVector, TheCode
  <2>1. /\ reg["rdi"] = TheVector /\ reg["rsi"] = TheCode
        /\ reg["rdx"] = Word("pointer", Len(stk))
    BY <1>1 DEF IInv, Registers
  <2>2. reg["rdx"].kind = "pointer" /\ reg["rdx"].n = Len(stk)
    BY <2>1, WordIs
  <2>3. stk \in Seq(Words) /\ Len(stk) \in 5 .. Len(stk) /\ Depth \in Nat
        /\ FrameAt(Len(stk), Depth)
    BY <1>1, LenProperties, DepthIs DEF IInv, TypeOK, OnTop
  <2>4. At(Len(stk)) = Frame(Depth)
    BY <2>3, AtIsFrame
  <2> QED
    BY <2>1, <2>2, <2>4
<1> QED
  BY <1>1, ExceptionsInvariant, PTL

\* However many exceptions are taken on top of one another, each frame stays
\* on the stack, in one place.
THEOREM ExceptionsFramesIntact == Spec => []FramesIntact
<1>1. ASSUME IInv PROVE FramesIntact
  <2> SUFFICES ASSUME idtr = "kernel", NEW n \in 1 .. Depth
               PROVE  Cardinality({p \in 5 .. Len(stk) : At(p) = Frame(n)}) = 1
    BY DEF FramesIntact
  <2>1. stk \in Seq(Words) /\ Len(stk) \in Nat /\ n \in Nat
    BY <1>1, LenProperties, DepthIs DEF IInv, TypeOK
  <2>2. PICK p \in 5 .. Len(stk) : FrameAt(p, n)
             /\ \A q \in 1 .. Len(stk) : stk[q] = Word("rip", n) => q = p
    BY <1>1 DEF IInv, Frames
  <2>3. \A q \in 5 .. Len(stk) : At(q) = Frame(n) <=> FrameAt(q, n)
    BY <2>1, AtIsFrame
  <2>4. \A q \in 5 .. Len(stk) : FrameAt(q, n) => q = p
    BY <2>1, <2>2 DEF FrameAt
  <2>5. {q \in 5 .. Len(stk) : At(q) = Frame(n)} = {p}
    BY <2>2, <2>3, <2>4
  <2> QED
    BY <2>5, FS_Singleton
<1> QED
  BY <1>1, ExceptionsInvariant, PTL

\* A finished report is about the exception that was taken, for every vector
\* and code and whatever was interrupted.
THEOREM ExceptionsReportTruthful == Spec => []ReportTruthful
<1>1. ASSUME IInv PROVE ReportTruthful
  <2> SUFFICES ASSUME abi = "sysv64", epc \in {"halt", "halted"}
               PROVE  ReportTruthful
    BY DEF ReportTruthful
  <2>1. Current.cr2 = Depth
    BY <1>1 DEF IInv, Path, InHandler
  <2> QED
    BY <1>1, <2>1 DEF IInv, ReportSoFar, ReportTruthful, TheVector
<1> QED
  BY <1>1, ExceptionsInvariant, PTL

\* Whatever the kernel has in use of its stack when the first exception comes,
\* no exception takes more than its share of the rest: the guard region is
\* reached only when more are nested than fit above it.
THEOREM ExceptionsGuardUntouched == Spec => []GuardUntouched
<1>1. ASSUME IInv PROVE GuardUntouched
  <2> DEFINE bound == KernelWords + Depth * (7 + HandlerWords)
  <2>1. Depth \in Nat /\ Len(stk) \in Nat
    BY <1>1, DepthIs, LenProperties DEF IInv, TypeOK
  <2>2. Slack \in Nat /\ bound \in Nat /\ UsableWords \in Nat
    BY <2>1, StackAssumption DEF Slack, UsableWords
  <2>3. Len(stk) + Slack <= bound
    BY <1>1 DEF IInv, Room
  <2>4. GuardUntouched <=> (bound <= UsableWords => Len(stk) <= UsableWords)
    BY DEF GuardUntouched
  <2> HIDE DEF bound
  <2> QED
    BY <2>1, <2>2, <2>3, <2>4
<1> QED
  BY <1>1, ExceptionsInvariant, PTL
=============================================================================
