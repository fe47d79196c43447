---------------------------- MODULE NativeProofs ----------------------------
(***************************************************************************)
(* The native VM, for all programs, capacities and hosts: what it asserts  *)
(* keeps it inside its storage, ticks keep a script's globals, and it does *)
(* what the Go VM does but for the reasons that TwoRuntimes names.         *)
(***************************************************************************)
EXTENDS TwoRuntimes, RunProofs

(* An instruction of the native VM mirrors one of the Go VM when it is     *)
(* defined exactly where the other succeeds, and leaves the same stack.    *)
Mirrors(native, outcome) ==
  /\ native.defined <=> outcome.status = "OK"
  /\ native.defined => native.stack = outcome.stack

LEMMA MirrorsDone ==
  ASSUME NEW s
  PROVE  Mirrors(Defined(s), Done(s))
BY DEF Mirrors, Defined, Done

LEMMA MirrorsFailure ==
  ASSUME NEW status, status # "OK", NEW s
  PROVE  /\ Mirrors(Undefined, Records(status, s))
         /\ Mirrors(Undefined, Sets(status, s))
BY DEF Mirrors, Undefined, Records, Sets

LEMMA EncodeLength ==
  ASSUME NEW kind \in Kind, KindSize(kind) > 0, NEW value
  PROVE  Len(Encode(KindSize(kind), value)) = KindSize(kind)
<1>1. KindSize(kind) = 1 \/ KindSize(kind) = 4
  BY KindSizes
<1>2. Len(Encode(1, value)) = 1 /\ Len(Encode(4, value)) = 4
  BY DEF Encode
<1>3. QED
  BY <1>1, <1>2

LEMMA MirrorsPushed ==
  ASSUME NEW s \in StackBytes, NEW kind \in Kind, KindSize(kind) > 0, NEW value
  PROVE  Mirrors(NativePushed(s, kind, value),
                 Pushed(s, Encode(KindSize(kind), value)))
<1> DEFINE bytes == Encode(KindSize(kind), value)
<1>1. Len(bytes) = KindSize(kind)
  BY EncodeLength
<1>2. Len(s) \in Nat /\ KindSize(kind) \in Nat /\ StackCapacity \in Nat
  BY KindSizes, VMAssumption DEF StackBytes
<1> HIDE DEF bytes
<1>3. CASE Len(s) + KindSize(kind) <= StackCapacity
  <2>1. NativePushed(s, kind, value) = Defined(s \o bytes)
    BY <1>3 DEF NativePushed, When, bytes
  <2>2. Pushed(s, bytes) = Done(s \o bytes)
    BY <1>1, <1>2, <1>3 DEF Pushed
  <2>3. QED
    BY <2>1, <2>2, MirrorsDone DEF bytes
<1>4. CASE ~ (Len(s) + KindSize(kind) <= StackCapacity)
  <2>1. NativePushed(s, kind, value) = Undefined
    BY <1>4 DEF NativePushed, When
  <2>2. Pushed(s, bytes) = Sets("StackOverflow", s)
    BY <1>1, <1>2, <1>4 DEF Pushed
  <2>3. QED
    BY <2>1, <2>2, MirrorsFailure DEF bytes
<1>5. QED
  BY <1>3, <1>4

LEMMA MirrorsUnderflow ==
  ASSUME NEW s, NEW n
  PROVE  Mirrors(Undefined, Underflow(s, n))
BY DEF Mirrors, Undefined, Underflow, Records

-----------------------------------------------------------------------------
(* Instruction by instruction. *)

LEMMA PushMirrors ==
  ASSUME NEW s \in StackBytes, NEW kind \in Kind, NEW bits
  PROVE  Mirrors(NativePush(s, kind, bits), PushResult(s, kind, bits))
<1>1. CASE kind \in {"None", "Void", "Address"}
  <2>1. NativePush(s, kind, bits) = Undefined
    BY <1>1 DEF NativePush, When
  <2>2. \/ PushResult(s, kind, bits) = Sets("InvalidValueKind", s)
        \/ PushResult(s, kind, bits) = Records("InvalidValueKind", s)
    BY <1>1 DEF PushResult, KindSize
  <2>3. QED
    BY <2>1, <2>2, MirrorsFailure
<1>2. CASE kind \notin {"None", "Void", "Address"}
  <2>1. KindSize(kind) > 0
    BY <1>2 DEF Kind, KindSize
  <2>2. NativePush(s, kind, bits) = NativePushed(s, kind, bits)
    BY <1>2 DEF NativePush, When
  <2>3. PushResult(s, kind, bits) = Pushed(s, Encode(KindSize(kind), bits))
    BY <1>2, <2>1 DEF PushResult
  <2>4. QED
    BY <2>1, <2>2, <2>3, MirrorsPushed
<1>3. QED
  BY <1>1, <1>2

LEMMA ArithmeticMirrors ==
  ASSUME NEW s \in StackBytes, NEW kind \in Kind, NEW op
  PROVE  Mirrors(NativeArithmetic(s, kind, op), ArithmeticResult(s, kind, op))
<1> DEFINE n == KindSize(kind)
           left == Typed(kind, Operand(s, n, 2))
           right == Typed(kind, Operand(s, n, 1))
           rest == Truncate(s, 2 * n)
           native == NativeArithmetic(s, kind, op)
           outcome == ArithmeticResult(s, kind, op)
<1>1. Len(s) \in Nat
  BY DEF StackBytes
<1>2. CASE kind \notin {"Bool", "Uint8", "Int32"}
  <2>1. native = Undefined /\ outcome = Records("InvalidOpcode", s)
    BY <1>2 DEF NativeArithmetic, When, ArithmeticResult
  <2>2. QED
    BY <2>1, MirrorsFailure
<1>3. CASE kind \in {"Bool", "Uint8", "Int32"} /\ Len(s) < 2 * n
  <2>1. n \in {1, 4}
    BY <1>3 DEF KindSize
  <2>2. native = Undefined /\ outcome = Underflow(s, n)
    BY <1>1, <1>3, <2>1 DEF NativeArithmetic, When, ArithmeticResult
  <2>3. QED
    BY <2>2, MirrorsUnderflow
<1>4. CASE kind \in {"Bool", "Uint8", "Int32"} /\ ~ (Len(s) < 2 * n)
  <2>1. n \in {1, 4} /\ n > 0
    BY <1>4 DEF KindSize
  <2>2. rest \in StackBytes
    BY <1>4, <2>1, PopOperands
  <2>3. Len(s) >= 2 * n
    BY <1>1, <1>4, <2>1
  <2>4. CASE op \notin ArithmeticOp \/ (op \in {"Div", "Modulo"} /\ right = 0)
    <3>1. native = Undefined
      BY <2>4 DEF NativeArithmetic, When
    <3>2. \/ outcome = Records("InvalidOpcode", rest)
          \/ outcome = Records("DivisionByZero", rest)
      BY <1>4, <2>4 DEF ArithmeticResult
    <3>3. QED
      BY <3>1, <3>2, MirrorsFailure
  <2>5. CASE op \in ArithmeticOp /\ ~ (op \in {"Div", "Modulo"} /\ right = 0)
    <3>1. native = NativePushed(rest, kind, Calculate(op, left, right))
      BY <1>4, <2>3, <2>5 DEF NativeArithmetic, When
    <3>2. outcome = Pushed(rest, Encode(n, Calculate(op, left, right)))
      BY <1>4, <2>5 DEF ArithmeticResult
    <3>3. QED
      BY <2>1, <2>2, <3>1, <3>2, MirrorsPushed
  <2>6. QED
    BY <2>4, <2>5
<1>5. QED
  BY <1>2, <1>3, <1>4

LEMMA ConvertMirrors ==
  ASSUME NEW s \in StackBytes, NEW from \in Kind, NEW to \in Kind
  PROVE  Mirrors(NativeConversion(s, from, to), ConvertResult(s, from, to))
<1> DEFINE n == KindSize(from)
           bits == Operand(s, n, 1)
           value == IF "Bool" \in {from, to} THEN Truth(bits) ELSE bits
           rest == Truncate(s, n)
           native == NativeConversion(s, from, to)
           outcome == ConvertResult(s, from, to)
<1>1. Len(s) \in Nat /\ n \in {0, 1, 4} /\ KindSize(to) \in {0, 1, 4}
  BY KindSizes DEF StackBytes
<1>2. CASE n = 0
  <2>1. native = Undefined /\ outcome = Records("InvalidValueKind", s)
    BY <1>2 DEF NativeConversion, When, ConvertResult
  <2>2. QED
    BY <2>1, MirrorsFailure
<1>3. CASE n # 0 /\ Len(s) < n
  <2>1. native = Undefined /\ outcome = Underflow(s, n)
    BY <1>1, <1>3 DEF NativeConversion, When, ConvertResult
  <2>2. QED
    BY <2>1, MirrorsUnderflow
<1>4. CASE n # 0 /\ ~ (Len(s) < n)
  <2>1. n > 0 /\ Len(s) >= n /\ n \in 0 .. Len(s)
    BY <1>1, <1>4
  <2>2. rest \in StackBytes
    BY <2>1, TruncateStack
  <2>3. CASE KindSize(to) = 0
    <3>1. native = Undefined /\ outcome = Records("InvalidValueKind", rest)
      BY <1>4, <2>3 DEF NativeConversion, When, ConvertResult
    <3>2. QED
      BY <3>1, MirrorsFailure
  <2>4. CASE KindSize(to) # 0
    <3>1. KindSize(to) > 0
      BY <1>1, <2>4
    <3>2. native = NativePushed(rest, to, value)
      BY <2>1, <3>1 DEF NativeConversion, When
    <3>3. outcome = Pushed(rest, Encode(KindSize(to), value))
      BY <1>4, <2>4 DEF ConvertResult
    <3>4. QED
      BY <2>2, <3>1, <3>2, <3>3, MirrorsPushed
  <2>5. QED
    BY <2>3, <2>4
<1>5. QED
  BY <1>2, <1>3, <1>4

(* The native VM pushes the answer of a comparison as any value. *)
LEMMA EncodedAnswer ==
  ASSUME NEW holds \in BOOLEAN
  PROVE  /\ KindSize("Bool") = 1
         /\ Encode(1, IF holds THEN 1 ELSE 0) = << IF holds THEN 1 ELSE 0 >>
<1>1. 1 % 16 = 1 /\ 0 % 16 = 0
  OBVIOUS
<1>2. Encode(1, 1) = << 1 >> /\ Encode(1, 0) = << 0 >>
  BY <1>1 DEF Encode
<1>3. KindSize("Bool") = 1
  <2>1. \A kind : kind \in {"Bool", "Uint8"} => KindSize(kind) = 1
    BY DEF KindSize
  <2>2. QED
    BY <2>1
<1>4. CASE holds
  BY <1>2, <1>3, <1>4
<1>5. CASE ~ holds
  BY <1>2, <1>3, <1>5
<1>6. QED
  BY <1>4, <1>5

LEMMA CompareMirrors ==
  ASSUME NEW s \in StackBytes, NEW kind \in Kind, NEW op
  PROVE  Mirrors(NativeComparison(s, kind, op), CompareResult(s, kind, op))
<1> DEFINE n == KindSize(kind)
           value(bits) == IF kind = "Bool" THEN Truth(bits) ELSE Typed(kind, bits)
           left == value(Operand(s, n, 2))
           right == value(Operand(s, n, 1))
           rest == Truncate(s, 2 * n)
           ops == IF kind = "Bool" THEN {"Equal", "NotEqual"} ELSE CompareOp
           native == NativeComparison(s, kind, op)
           outcome == CompareResult(s, kind, op)
<1>1. Len(s) \in Nat /\ n \in {0, 1, 4}
  BY KindSizes DEF StackBytes
<1>2. CASE n = 0
  <2>1. native = Undefined /\ outcome = Records("InvalidValueKind", s)
    BY <1>2 DEF NativeComparison, When, CompareResult
  <2>2. QED
    BY <2>1, MirrorsFailure
<1>3. CASE n # 0 /\ Len(s) < 2 * n
  <2>1. native = Undefined /\ outcome = Underflow(s, n)
    BY <1>1, <1>3 DEF NativeComparison, When, CompareResult
  <2>2. QED
    BY <2>1, MirrorsUnderflow
<1>4. CASE n # 0 /\ ~ (Len(s) < 2 * n)
  <2>1. n > 0 /\ Len(s) >= 2 * n /\ n \in {1, 4}
    BY <1>1, <1>4
  <2>2. rest \in StackBytes
    BY <1>4, <2>1, PopOperands
  <2>3. CASE op \notin ops
    <3>1. native = Undefined
      BY <2>3 DEF NativeComparison, When
    <3>2. outcome = Records("InvalidOpcode", rest)
      BY <1>4, <2>3 DEF CompareResult
    <3>3. QED
      BY <3>1, <3>2, MirrorsFailure
  <2>4. CASE op \in ops
    <3> DEFINE answer == IF Holds(op, left, right) THEN 1 ELSE 0
    <3>1. native = NativePushed(rest, "Bool", answer)
      BY <2>1, <2>4 DEF NativeComparison, When
    <3>2. outcome = Pushed(rest, << answer >>)
      BY <1>4, <2>4 DEF CompareResult
    <3>3. Encode(1, answer) = << answer >> /\ KindSize("Bool") = 1 /\ "Bool" \in Kind
      <4>1. answer = IF Holds(op, left, right) = TRUE THEN 1 ELSE 0
        OBVIOUS
      <4>2. (Holds(op, left, right) = TRUE) \in BOOLEAN
        OBVIOUS
      <4>3. QED
        BY <4>1, <4>2, EncodedAnswer DEF Kind
    <3> HIDE DEF answer
    <3>4. Mirrors(NativePushed(rest, "Bool", answer), Pushed(rest, Encode(1, answer)))
      BY <2>2, <3>3, MirrorsPushed
    <3>5. QED
      BY <3>1, <3>2, <3>3, <3>4
  <2>5. QED
    BY <2>3, <2>4
<1>5. QED
  BY <1>2, <1>3, <1>4

-----------------------------------------------------------------------------
(* Addresses: what is read through them is pushed as it was.               *)

LEMMA AddressSize == KindSize("Address") = 4 /\ "Address" \in Kind
<1>1. \A kind : kind \in {"Int32", "Address"} => KindSize(kind) = 4
  BY DEF KindSize
<1>2. QED
  BY <1>1 DEF Kind

(* Encoding a value again that was read as a number of bytes. *)
LEMMA DecodedIsEncoded ==
  ASSUME NEW bytes \in Seq(Byte), Len(bytes) \in {1, 4}
  PROVE  Encode(Len(bytes), Decode(bytes)) = bytes
<1>1. CASE Len(bytes) = 1
  <2>1. bytes[1] \in Byte /\ bytes = << bytes[1] >>
    BY <1>1
  <2>2. bytes[1] % 16 = bytes[1]
    BY <2>1, ByteRange
  <2>3. QED
    BY <1>1, <2>1, <2>2 DEF Encode, Decode
<1>2. CASE Len(bytes) = 4
  <2> DEFINE a == bytes[1]
             b == bytes[2]
             c == bytes[3]
             d == bytes[4]
             whole == a + 16 * b + 256 * c + 4096 * d
  <2>1. a \in Byte /\ b \in Byte /\ c \in Byte /\ d \in Byte
    BY <1>2
  <2>2. bytes = << a, b, c, d >>
    BY <1>2
  <2>3. Decode(bytes) = whole
    BY <1>2 DEF Decode
  <2> HIDE DEF a, b, c, d
  <2>4. /\ a \in Int /\ 0 <= a /\ a <= 15 /\ b \in Int /\ 0 <= b /\ b <= 15
        /\ c \in Int /\ 0 <= c /\ c <= 15 /\ d \in Int /\ 0 <= d /\ d <= 15
    BY <2>1, ByteRange
  <2>5. /\ whole % 16 = a
        /\ (whole \div 16) % 16 = b
        /\ (whole \div 256) % 16 = c
        /\ (whole \div 4096) % 16 = d
    BY <2>4
  <2>6. Encode(4, whole) = << a, b, c, d >>
    <3> HIDE DEF whole
    <3>1. QED
      BY <2>5 DEF Encode
  <2>7. QED
    BY <1>2, <2>2, <2>3, <2>6
<1>3. QED
  BY <1>1, <1>2

(* The frames are the same, the segment is one of the native VM's. *)
LEMMA AddrMirrors ==
  ASSUME NEW s \in StackBytes, NEW segment \in 0 .. 15, NEW offset \in Nat,
         callFrames = nativeFrames, callFrames \in Seq(FrameType),
         segment \in NativeSegment
  PROVE  Mirrors(NativeAddr(s, segment, offset), AddrResult(s, segment, offset))
<1> DEFINE base == IF segment = Frame THEN LocalBase ELSE 0
           address == MakeAddress(segment, base + offset)
           native == NativeAddr(s, segment, offset)
           outcome == AddrResult(s, segment, offset)
<1>1. CASE segment = Frame /\ callFrames = << >>
  <2>1. native = Undefined /\ outcome = Records("InvalidLifecycle", s)
    BY <1>1 DEF NativeAddr, When, AddrResult
  <2>2. QED
    BY <2>1, MirrorsFailure
<1>2. CASE ~ (segment = Frame /\ callFrames = << >>)
  <2>1. base \in Nat
    <3>1. CASE segment # Frame
      BY <3>1
    <3>2. CASE segment = Frame
      <4>1. callFrames[Len(callFrames)] \in FrameType
        BY <1>2, <3>2
      <4>2. QED
        BY <3>2, <4>1 DEF LocalBase, FrameType
    <3>3. QED
      BY <3>1, <3>2
  <2>2. base = IF segment = Frame
               THEN nativeFrames[Len(nativeFrames)].localBase ELSE 0
    BY DEF LocalBase
  <2> HIDE DEF base
  <2>3. base + offset \in Int /\ AddressIndexMask \in Int
    BY <2>1 DEF AddressIndexMask
  <2>4. CASE base + offset > AddressIndexMask
    <3>1. ~ (base + offset <= AddressIndexMask)
      BY <2>3, <2>4
    <3>2. native = Undefined
      BY <2>2, <3>1 DEF NativeAddr, When
    <3>3. outcome = Sets("InvalidAddress", s)
      BY <1>2, <2>4 DEF AddrResult, base
    <3>4. QED
      BY <3>2, <3>3, MirrorsFailure
  <2>5. CASE ~ (base + offset > AddressIndexMask)
    <3>1. base + offset <= AddressIndexMask
      BY <2>3, <2>5
    <3>2. native = NativePushed(s, "Address", address)
      BY <1>2, <2>2, <3>1 DEF NativeAddr, When
    <3>3. outcome = Pushed(s, Encode(4, address))
      BY <1>2, <2>5 DEF AddrResult, base
    <3> HIDE DEF address
    <3>4. QED
      BY <3>2, <3>3, AddressSize, MirrorsPushed
  <2>6. QED
    BY <2>4, <2>5
<1>3. QED
  BY <1>1, <1>2

LEMMA OffsetMirrors ==
  ASSUME NEW s \in StackBytes
  PROVE  Mirrors(NativeOffset(s), OffsetResult(s))
<1> DEFINE base == Operand(s, 4, 2)
           index == AddressIndex(base) + Signed(Operand(s, 4, 1))
           rest == Truncate(s, 8)
           address == MakeAddress(AddressSegment(base), index)
<1>1. Len(s) \in Nat
  BY DEF StackBytes
<1>2. CASE Len(s) < 8
  <2>1. NativeOffset(s) = Undefined /\ OffsetResult(s) = Underflow(s, 4)
    BY <1>1, <1>2 DEF NativeOffset, When, OffsetResult
  <2>2. QED
    BY <2>1, MirrorsUnderflow
<1>3. CASE ~ (Len(s) < 8)
  <2>1. Len(s) >= 8 /\ 8 \in 0 .. Len(s)
    BY <1>1, <1>3
  <2>2. rest \in StackBytes
    BY <2>1, TruncateStack
  <2>3. CASE index \notin 0 .. AddressIndexMask
    <3>1. NativeOffset(s) = Undefined
      BY <2>3 DEF NativeOffset, When
    <3>2. OffsetResult(s) = Sets("InvalidAddress", rest)
      BY <1>3, <2>3 DEF OffsetResult
    <3>3. QED
      BY <3>1, <3>2, MirrorsFailure
  <2>4. CASE index \in 0 .. AddressIndexMask
    <3>1. NativeOffset(s) = NativePushed(rest, "Address", address)
      BY <2>1, <2>4 DEF NativeOffset, When
    <3>2. OffsetResult(s) = Pushed(rest, Encode(4, address))
      BY <1>3, <2>4 DEF OffsetResult
    <3> HIDE DEF address
    <3>3. QED
      BY <2>2, <3>1, <3>2, AddressSize, MirrorsPushed
  <2>5. QED
    BY <2>3, <2>4
<1>4. QED
  BY <1>2, <1>3

(* The two reserved segments, which the native VM does not know, are empty *)
(* in Go.                                                                  *)
ReservedEmpty == Len(memory[7]) = 0 /\ Len(memory[8]) = 0

LEMMA DereferenceMirrors ==
  ASSUME NEW s \in StackBytes, NEW kind \in Kind, memory \in Memory,
         nativeMemory = memory, ReservedEmpty
  PROVE  Mirrors(NativeDereference(s, kind), DereferenceResult(s, kind))
<1> DEFINE n == KindSize(kind)
           rest == Truncate(s, 4)
           segment == AddressSegment(Operand(s, 4, 1))
           source == IF segment = Stack THEN rest ELSE memory[segment]
           offset == AddressIndex(Operand(s, 4, 1))
           native == NativeDereference(s, kind)
           outcome == DereferenceResult(s, kind)
<1>1. Len(s) \in Nat /\ n \in {0, 1, 4} /\ (kind = "None" => n = 0)
  <2>1. \A k : k \in {"None"} => KindSize(k) = 0
    BY DEF KindSize
  <2>2. QED
    BY <2>1, KindSizes DEF StackBytes
<1>2. source = IF segment = Stack THEN rest ELSE nativeMemory[segment]
  OBVIOUS
<1>3. CASE kind = "None" \/ Len(s) < 4
  <2>1. native = Undefined
    <3>1. ~ (n > 0 /\ Len(s) >= 4)
      BY <1>1, <1>3
    <3>2. QED
      BY <3>1 DEF NativeDereference, When
  <2>2. \/ outcome = Sets("InvalidValueKind", s)
        \/ outcome = Underflow(s, 4)
    BY <1>3 DEF DereferenceResult
  <2>3. QED
    BY <2>1, <2>2, MirrorsFailure, MirrorsUnderflow
<1>4. CASE kind # "None" /\ ~ (Len(s) < 4)
  <2>1. rest \in StackBytes /\ offset \in Nat /\ Len(s) >= 4
    BY <1>1, <1>4, PopAddress
  <2>2. CASE segment \in NativeSegment /\ n # 0 /\ InSegment(source, offset, n)
    <3>1. segment \in Segment
      BY <2>2 DEF NativeSegment, Segment, Frame, Stack
    <3> DEFINE bytes == ReadBytes(source, offset, n)
    <3>2. bytes \in Seq(Byte) /\ Len(bytes) = n
      <4>1. source \in Seq(Byte)
        BY <2>1, <3>1 DEF Memory, StackBytes
      <4>2. n \in Nat
        BY <1>1
      <4> HIDE DEF source, offset, n
      <4>3. QED
        BY <2>1, <2>2, <4>1, <4>2, ReadBytesRange
    <3>3. outcome = Pushed(rest, bytes)
      BY <1>4, <2>2, <3>1 DEF DereferenceResult
    <3>4. n > 0
      BY <1>1, <2>2
    <3>5. native = NativePushed(rest, kind, Decode(bytes))
      BY <1>2, <2>1, <2>2, <3>4 DEF NativeDereference, When
    <3> HIDE DEF bytes
    <3>6. Encode(n, Decode(bytes)) = bytes
      <4>1. n \in {1, 4}
        BY <1>1, <3>4
      <4> HIDE DEF n
      <4>2. Len(bytes) \in {1, 4}
        BY <3>2, <4>1
      <4>3. QED
        BY <3>2, <4>2, DecodedIsEncoded
    <3>7. QED
      BY <2>1, <3>3, <3>4, <3>5, <3>6, MirrorsPushed
  <2>3. CASE ~ (segment \in NativeSegment /\ n # 0 /\ InSegment(source, offset, n))
    <3>1. native = Undefined
      <4>1. ~ /\ n > 0
              /\ segment \in NativeSegment
              /\ InSegment(source, offset, n)
        BY <1>1, <2>3
      <4>2. QED
        BY <1>2, <4>1 DEF NativeDereference, When
    <3>2. ~ (segment \in Segment /\ n # 0 /\ InSegment(source, offset, n))
      <4>1. CASE segment \in {7, 8} /\ n # 0
        <5>1. source = memory[segment]
          BY <4>1 DEF Stack
        <5>2. Len(source) = 0
          BY <4>1, <5>1 DEF ReservedEmpty
        <5> HIDE DEF source, offset, n
        <5>3. QED
          BY <1>1, <2>1, <4>1, <5>2 DEF InSegment
      <4>2. CASE ~ (segment \in {7, 8} /\ n # 0)
        BY <2>3, <4>2 DEF Segment, NativeSegment, Frame, Stack
      <4>3. QED
        BY <4>1, <4>2
    <3>3. \/ outcome = Sets("InvalidAddressSegment", rest)
          \/ outcome = Records("InvalidValueKind", rest)
          \/ outcome = Records("InvalidAddress", rest)
      BY <1>4, <3>2 DEF DereferenceResult
    <3>4. QED
      BY <3>1, <3>3, MirrorsFailure
  <2>4. QED
    BY <2>2, <2>3
<1>5. QED
  BY <1>3, <1>4

LEMMA StartOfStart ==
  ASSUME NEW s \in Seq(Byte), NEW m \in 0 .. Len(s), NEW k \in 0 .. m
  PROVE  SubSeq(SubSeq(s, 1, m), 1, k) = SubSeq(s, 1, k)
<1> DEFINE t == SubSeq(s, 1, m)
<1>1. Len(s) \in Nat /\ m \in Nat /\ m <= Len(s) /\ k \in Nat /\ k <= m
  OBVIOUS
<1>2. t \in Seq(Byte) /\ Len(t) = m /\ \A i \in 1 .. m : t[i] = s[i]
  BY <1>1
<1> HIDE DEF t
<1>3. k <= Len(t) /\ k <= Len(s) /\ \A i \in 1 .. k : t[i] = s[i]
  BY <1>1, <1>2
<1>4. SubSeq(t, 1, k) = SubSeq(s, 1, k)
  BY <1>1, <1>2, <1>3, SameStart
<1>5. QED
  BY <1>4 DEF t

(* An assignment succeeds in both or in none, and writes the same.         *)
LEMMA AssignMirrors ==
  ASSUME NEW s \in StackBytes, NEW kind \in Kind, memory \in Memory,
         nativeMemory = memory, ReservedEmpty
  PROVE  LET native == NativeAssign(s, kind)
             outcome == AssignResult(s, kind)
         IN  /\ native.defined <=> outcome.status = "OK"
             /\ native.defined =>
                  NativeAssigned(s, kind) = Assigned(s, kind, outcome.stack)
<1> DEFINE n == KindSize(kind)
           address == Operand(s, 4, 1)
           rest == Truncate(s, 4)
           popped == Truncate(rest, n)
           segment == AddressSegment(address)
           offset == AddressIndex(address)
           destination == IF segment = Stack THEN rest ELSE memory[segment]
           native == NativeAssign(s, kind)
           outcome == AssignResult(s, kind)
<1>1. Len(s) \in Nat /\ n \in {0, 1, 4} /\ (kind = "None" => n = 0)
  <2>1. \A k : k \in {"None"} => KindSize(k) = 0
    BY DEF KindSize
  <2>2. QED
    BY <2>1, KindSizes DEF StackBytes
<1>2. CASE kind = "None" \/ Len(s) < 4
  <2>1. native = Undefined
    <3>1. ~ (n > 0 /\ Len(s) >= 4 + n)
      BY <1>1, <1>2
    <3>2. QED
      BY <3>1 DEF NativeAssign, When
  <2>2. outcome.status # "OK"
    BY <1>2 DEF AssignResult, Sets, Underflow, Records
  <2>3. QED
    BY <2>1, <2>2 DEF Undefined
<1>3. CASE kind # "None" /\ ~ (Len(s) < 4)
  <2>1. rest \in StackBytes /\ offset \in Nat /\ Len(s) >= 4
    BY <1>1, <1>3, PopAddress
  <2>2. rest \in Seq(Byte) /\ Len(rest) = Len(s) - 4
    <3>1. 4 \in 0 .. Len(s)
      BY <1>1, <2>1
    <3>2. QED
      BY <3>1, TruncateStack DEF StackBytes
  <2>3. CASE n = 0 \/ Len(rest) < n
    <3>1. native = Undefined
      <4>1. ~ (n > 0 /\ Len(s) >= 4 + n)
        BY <1>1, <2>2, <2>3
      <4>2. QED
        BY <4>1 DEF NativeAssign, When
    <3>2. outcome.status # "OK"
      BY <1>3, <2>3 DEF AssignResult, Sets
    <3>3. QED
      BY <3>1, <3>2 DEF Undefined
  <2>4. CASE n # 0 /\ ~ (Len(rest) < n)
    <3>1. n > 0 /\ Len(s) >= 4 + n /\ n \in 0 .. Len(rest)
      BY <1>1, <2>2, <2>4
    <3>2. popped \in StackBytes /\ Len(popped) = Len(rest) - n
      BY <2>1, <3>1, TruncateStack
    <3>3. Truncate(s, 4 + n) = popped
      <4>1. s \in Seq(Byte)
        BY DEF StackBytes
      <4>2. /\ Len(s) - (4 + n) = Len(rest) - n
            /\ Len(rest) - n <= Len(rest) /\ Len(rest) <= Len(s)
            /\ Len(rest) - n \in Nat
        BY <1>1, <2>2, <3>1
      <4>3. popped = SubSeq(rest, 1, Len(rest) - n)
        BY DEF Truncate
      <4>4. rest = SubSeq(s, 1, Len(s) - 4)
        BY DEF Truncate
      <4>5. Truncate(s, 4 + n) = SubSeq(s, 1, Len(rest) - n)
        BY <4>2 DEF Truncate
      <4>6. SubSeq(SubSeq(s, 1, Len(s) - 4), 1, Len(rest) - n)
              = SubSeq(s, 1, Len(rest) - n)
        <5>1. Len(s) - 4 \in 0 .. Len(s) /\ Len(rest) - n \in 0 .. Len(s) - 4
          BY <1>1, <2>1, <2>2, <4>2
        <5>2. QED
          BY <4>1, <5>1, StartOfStart
      <4>7. QED
        BY <4>3, <4>4, <4>5, <4>6
    <3>4. CASE segment \notin NativeSegment \ {Const}
      <4>1. native = Undefined
        BY <3>4 DEF NativeAssign, When
      <4>2. outcome.status # "OK"
        <5>1. CASE ~ Writable(segment) \/ segment \notin Segment
          BY <1>3, <5>1 DEF AssignResult, Sets
        <5>2. CASE Writable(segment) /\ segment \in Segment
          <6>1. segment \in {7, 8}
            BY <3>4, <5>2 DEF Writable, Segment, NativeSegment, Frame, Stack
          <6>2. destination = memory[segment] /\ Len(destination) = 0
            BY <6>1 DEF ReservedEmpty, Stack
          <6>3. ~ InSegment(destination, offset, n)
            <7> HIDE DEF destination, offset, n
            <7>1. QED
              BY <2>1, <3>1, <6>2 DEF InSegment
          <6>4. QED
            BY <1>3, <6>3 DEF AssignResult, Sets
        <5>3. QED
          BY <5>1, <5>2
      <4>3. QED
        BY <4>1, <4>2 DEF Undefined
    <3>5. CASE segment \in NativeSegment \ {Const}
      <4>1. segment \in Segment /\ Writable(segment)
        BY <3>5 DEF Segment, NativeSegment, Frame, Stack, Writable
      <4> DEFINE into == IF segment = Stack THEN popped ELSE memory[segment]
      <4>2. CASE ~ InSegment(into, offset, n)
        <5>1. native = Undefined
          BY <3>3, <4>2 DEF NativeAssign, When
        <5>2. outcome.status # "OK"
          BY <1>3, <4>1, <4>2 DEF AssignResult, Sets
        <5>3. QED
          BY <5>1, <5>2 DEF Undefined
      <4>3. CASE InSegment(into, offset, n)
        <5>1. native = Defined(popped)
          BY <3>1, <3>3, <3>5, <4>3 DEF NativeAssign, When
        <5>2. InSegment(destination, offset, n)
          <6>1. CASE segment # Stack
            BY <4>3, <6>1
          <6>2. CASE segment = Stack
            <7>1. into = popped /\ destination = rest
              BY <6>2
            <7> HIDE DEF into, destination, popped, rest, offset, n
            <7>2. Len(rest) \in Nat
              BY <2>2, <1>1, <2>1
            <7>3. QED
              BY <2>1, <3>1, <3>2, <4>3, <7>1, <7>2 DEF InSegment
          <6>3. QED
            BY <6>1, <6>2
        <5> DEFINE left == IF segment = Stack
                             THEN WriteBytes(popped, offset, Top(rest, n))
                             ELSE popped
        <5>3. outcome = Done(left)
          BY <1>3, <2>4, <4>1, <4>3, <5>2 DEF AssignResult
        <5>4. NativeAssigned(s, kind) =
                [[memory EXCEPT ![Stack] = popped] EXCEPT
                   ![segment] = WriteBytes(@, offset, Top(rest, n))]
          BY <3>3 DEF NativeAssigned
        <5>5. Assigned(s, kind, left) =
                [memory EXCEPT ![Stack] = left,
                   ![segment] = IF segment = Stack THEN left
                                ELSE WriteBytes(@, offset, Top(rest, n))]
          BY DEF Assigned
        <5>6. memory \in [Segment -> Seq(Byte)] /\ Stack \in Segment
          BY DEF Memory, Segment, Stack
        <5>7. NativeAssigned(s, kind) = Assigned(s, kind, left)
          <6> HIDE DEF segment, offset, rest, popped, n
          <6>1. CASE segment = Stack
            BY <5>4, <5>5, <5>6, <6>1
          <6>2. CASE segment # Stack
            BY <4>1, <5>4, <5>5, <5>6, <6>2
          <6>3. QED
            BY <6>1, <6>2
        <5>8. QED
          BY <5>1, <5>3, <5>7 DEF Defined, Done
      <4>4. QED
        BY <4>2, <4>3
    <3>6. QED
      BY <3>4, <3>5
  <2>5. QED
    BY <2>3, <2>4
<1>4. QED
  BY <1>2, <1>3

-----------------------------------------------------------------------------
(* The native outcomes leave a stack, whatever the Go VM is doing.         *)

LeavesStack(native) == native.defined => native.stack \in StackBytes

LEMMA MirrorLeavesStack ==
  ASSUME NEW native, NEW outcome \in Outcome, Mirrors(native, outcome)
  PROVE  LeavesStack(native)
BY DEF Mirrors, Outcome, LeavesStack

LEMMA NothingLeft == LeavesStack(Undefined)
BY DEF LeavesStack, Undefined

LEMMA PushedLeavesStack ==
  ASSUME NEW s \in StackBytes, NEW kind \in Kind, NEW value \in Int
  PROVE  LeavesStack(NativePushed(s, kind, value))
<1>1. CASE ~ (KindSize(kind) > 0)
  <2>1. NativePushed(s, kind, value) = Undefined
    BY <1>1 DEF NativePushed, When
  <2>2. QED
    BY <2>1, NothingLeft
<1>2. CASE KindSize(kind) > 0
  <2>1. KindSize(kind) \in {1, 4}
    BY <1>2, KindSizes
  <2>2. Encode(KindSize(kind), value) \in Seq(Byte)
    BY <2>1, EncodeBytes
  <2>3. Pushed(s, Encode(KindSize(kind), value)) \in Outcome
    BY <2>2, PushedType
  <2>4. QED
    BY <1>2, <2>3, MirrorsPushed, MirrorLeavesStack
<1>3. QED
  BY <1>1, <1>2

LEMMA StackInstructionsLeaveStack ==
  ASSUME NEW s \in StackBytes, NEW kind \in Kind, NEW from \in Kind, NEW op,
         NEW bits \in Nat
  PROVE  /\ LeavesStack(NativePush(s, kind, bits))
         /\ LeavesStack(NativeArithmetic(s, kind, op))
         /\ LeavesStack(NativeConversion(s, from, kind))
         /\ LeavesStack(NativeComparison(s, kind, op))
         /\ LeavesStack(NativeOffset(s))
<1>1. LeavesStack(NativePush(s, kind, bits))
  BY PushMirrors, PushType, MirrorLeavesStack
<1>2. LeavesStack(NativeArithmetic(s, kind, op))
  BY ArithmeticMirrors, ArithmeticType, MirrorLeavesStack
<1>3. LeavesStack(NativeConversion(s, from, kind))
  BY ConvertMirrors, ConvertType, MirrorLeavesStack
<1>4. LeavesStack(NativeComparison(s, kind, op))
  BY CompareMirrors, CompareType, MirrorLeavesStack
<1>5. LeavesStack(NativeOffset(s))
  BY OffsetMirrors, OffsetType, MirrorLeavesStack
<1>6. QED
  BY <1>1, <1>2, <1>3, <1>4, <1>5

NativeFrameType ==
  [returnPC : Nat, localBase : 0 .. FrameCapacity, returnKind : Kind]

LEMMA AddrLeavesStack ==
  ASSUME NEW s \in StackBytes, NEW segment \in 0 .. 15, NEW offset \in Nat,
         nativeFrames \in Seq(NativeFrameType)
  PROVE  LeavesStack(NativeAddr(s, segment, offset))
<1> DEFINE base == IF segment = Frame
                   THEN nativeFrames[Len(nativeFrames)].localBase ELSE 0
           made == /\ segment \in NativeSegment
                   /\ segment = Frame => nativeFrames # << >>
                   /\ base + offset <= AddressIndexMask
<1>1. CASE ~ made
  <2>1. NativeAddr(s, segment, offset) = Undefined
    BY <1>1 DEF NativeAddr, When
  <2>2. QED
    BY <2>1, NothingLeft
<1>2. CASE made
  <2>1. base \in Nat
    <3>1. CASE segment # Frame
      BY <3>1
    <3>2. CASE segment = Frame
      <4>1. nativeFrames[Len(nativeFrames)] \in NativeFrameType
        BY <1>2, <3>2
      <4>2. nativeFrames[Len(nativeFrames)].localBase \in 0 .. FrameCapacity
        BY <4>1 DEF NativeFrameType
      <4>3. QED
        BY <3>2, <4>2, VMAssumption
    <3>3. QED
      BY <3>1, <3>2
  <2>2. NativeAddr(s, segment, offset)
          = NativePushed(s, "Address", MakeAddress(segment, base + offset))
    BY <1>2 DEF NativeAddr, When
  <2> HIDE DEF base
  <2>3. MakeAddress(segment, base + offset) \in Int
    <3>1. segment \in Nat /\ base + offset \in Nat
      BY <2>1
    <3>2. MakeAddress(segment, base + offset) \in Nat
      BY <3>1, MakeAddressNat
    <3>3. QED
      BY <3>2
  <2>4. QED
    BY <2>2, <2>3, AddressSize, PushedLeavesStack
<1>3. QED
  BY <1>1, <1>2

LEMMA DereferenceLeavesStack ==
  ASSUME NEW s \in StackBytes, NEW kind \in Kind, nativeMemory \in Memory
  PROVE  LeavesStack(NativeDereference(s, kind))
<1> DEFINE n == KindSize(kind)
           address == Operand(s, 4, 1)
           rest == Truncate(s, 4)
           segment == AddressSegment(address)
           source == IF segment = Stack THEN rest ELSE nativeMemory[segment]
           offset == AddressIndex(address)
           reads == /\ n > 0
                    /\ Len(s) >= 4
                    /\ segment \in NativeSegment
                    /\ InSegment(source, offset, n)
<1>1. CASE ~ reads
  <2>1. NativeDereference(s, kind) = Undefined
    BY <1>1 DEF NativeDereference, When
  <2>2. QED
    BY <2>1, NothingLeft
<1>2. CASE reads
  <2>1. ~ (Len(s) < 4) /\ n \in {1, 4}
    BY <1>2, KindSizes DEF StackBytes
  <2>2. rest \in StackBytes /\ offset \in Nat
    BY <2>1, PopAddress
  <2>3. source \in Seq(Byte) /\ n \in Nat
    <3>1. segment \in Segment
      BY <1>2 DEF NativeSegment, Segment, Frame, Stack
    <3>2. rest \in Seq(Byte)
      BY <2>2 DEF StackBytes
    <3> HIDE DEF segment, rest
    <3>3. source \in Seq(Byte)
      BY <3>1, <3>2 DEF Memory
    <3>4. QED
      BY <2>1, <3>3
  <2> DEFINE bytes == ReadBytes(source, offset, n)
  <2>4. bytes \in Seq(Byte) /\ Len(bytes) \in {1, 4}
    <3> HIDE DEF source, offset, n
    <3>1. QED
      BY <1>2, <2>1, <2>2, <2>3, ReadBytesRange
  <2>5. NativeDereference(s, kind) = NativePushed(rest, kind, Decode(bytes))
    BY <1>2 DEF NativeDereference, When
  <2> HIDE DEF bytes
  <2>6. Decode(bytes) \in Int
    BY <2>4, DecodeRange, WordIsInt
  <2>7. QED
    BY <2>2, <2>5, <2>6, PushedLeavesStack
<1>3. QED
  BY <1>1, <1>2

(* The segment written to is no longer and no shorter.                     *)
LEMMA AssignedInMemory ==
  ASSUME NEW s \in StackBytes, NEW kind \in Kind, nativeMemory \in Memory,
         NativeAssign(s, kind).defined
  PROVE  NativeAssigned(s, kind) \in Memory
<1> DEFINE n == KindSize(kind)
           address == Operand(s, 4, 1)
           segment == AddressSegment(address)
           value == Top(Truncate(s, 4), n)
           left == Truncate(s, 4 + n)
           popped == [nativeMemory EXCEPT ![Stack] = left]
           offset == AddressIndex(address)
<1>1. n > 0 /\ Len(s) >= 4 + n /\ segment \in NativeSegment \ {Const}
  BY DEF NativeAssign, When, Undefined
<1>2. n \in {1, 4} /\ Len(s) \in Nat
  BY <1>1, KindSizes DEF StackBytes
<1>3. ~ (Len(s) < 4) /\ 4 + n \in 0 .. Len(s) /\ 4 \in 0 .. Len(s)
  <2> HIDE DEF n
  <2>1. QED
    BY <1>1, <1>2
<1>4. Truncate(s, 4) \in StackBytes /\ Len(Truncate(s, 4)) = Len(s) - 4
        /\ offset \in Nat /\ left \in StackBytes
  <2>1. Truncate(s, 4) \in StackBytes /\ Len(Truncate(s, 4)) = Len(s) - 4
    BY <1>3, TruncateStack
  <2>2. left \in StackBytes
    BY <1>3, TruncateStack
  <2>3. offset \in Nat
    BY <1>3, PopAddress
  <2>4. QED
    BY <2>1, <2>2, <2>3
<1>5. value \in Seq(Byte)
  <2>1. Truncate(s, 4) \in Seq(Byte) /\ n \in 0 .. Len(Truncate(s, 4))
    BY <1>1, <1>2, <1>4 DEF StackBytes
  <2>2. QED
    BY <2>1, TopBytes
<1>6. popped \in Memory
  BY <1>4, MemoryStack
<1>7. NativeAssigned(s, kind) =
        [popped EXCEPT ![segment] = WriteBytes(@, offset, value)]
  BY DEF NativeAssigned
<1>8. segment \in Segment
  BY <1>1 DEF NativeSegment, Segment, Frame, Stack
<1> HIDE DEF popped, segment, value, offset, n, left
<1>9. /\ popped \in [Segment -> Seq(Byte)] /\ popped[segment] \in Seq(Byte)
      /\ Len(popped[Frame]) = FrameCapacity /\ Len(popped[Stack]) <= StackCapacity
  BY <1>6, <1>8 DEF Memory
<1>10. /\ WriteBytes(popped[segment], offset, value) \in Seq(Byte)
       /\ Len(WriteBytes(popped[segment], offset, value)) = Len(popped[segment])
  BY <1>4, <1>5, <1>9, WriteBytesRange
<1>11. Frame \in Segment /\ Stack \in Segment
  BY DEF Segment, Frame, Stack
<1>12. QED
  BY <1>7, <1>8, <1>9, <1>10, <1>11 DEF Memory

(* What a timer instruction takes off the stack.                           *)
LEMMA TimerOperands ==
  ASSUME NEW s \in StackBytes, NEW op \in TimerBuiltIn,
         op = "TimerStart" => Len(s) >= 4, Len(SlotStack(s, op)) >= 1
  PROVE  /\ SlotStack(s, op) \in StackBytes
         /\ Truncate(SlotStack(s, op), 1) \in StackBytes
         /\ op = "TimerStart" => Operand(s, 4, 1) \in Word
         /\ op # "TimerStart" => SlotStack(s, op) = s
<1> DEFINE below == SlotStack(s, op)
<1>1. Len(s) \in Nat
  BY DEF StackBytes
<1>2. below \in StackBytes /\ (op = "TimerStart" => Operand(s, 4, 1) \in Word)
  <2>1. CASE op # "TimerStart"
    BY <2>1 DEF SlotStack
  <2>2. CASE op = "TimerStart"
    <3>1. below = Truncate(s, 4)
      BY <2>2 DEF SlotStack
    <3>2. 4 \in 0 .. Len(s) /\ 4 * 1 <= Len(s)
      BY <1>1, <2>2
    <3>3. Operand(s, 4, 1) \in Word
      BY <3>2, OperandWord
    <3>4. QED
      BY <3>1, <3>2, <3>3, TruncateStack
  <2>3. QED
    BY <2>1, <2>2
<1>3. Truncate(below, 1) \in StackBytes
  <2>1. Len(below) \in Nat
    BY <1>2 DEF StackBytes
  <2>2. 1 \in 0 .. Len(below)
    BY <2>1
  <2> HIDE DEF below
  <2>3. QED
    BY <1>2, <2>2, TruncateStack
<1>4. QED
  BY <1>2, <1>3 DEF SlotStack

LEMMA TimerChecked ==
  ASSUME NEW s, NEW kind, NEW op, NativeTimer(s, kind, op).defined
  PROVE  /\ kind = TimerKind(op)
         /\ op = "TimerStart" => Len(s) >= 4
         /\ Len(SlotStack(s, op)) >= 1
         /\ Operand(SlotStack(s, op), 1, 1) \in TimerId
BY DEF NativeTimer, When, Undefined

LEMMA TimerLeavesStack ==
  ASSUME NEW s \in StackBytes, NEW kind \in Kind, NEW op \in TimerBuiltIn
  PROVE  LeavesStack(NativeTimer(s, kind, op))
<1> DEFINE native == NativeTimer(s, kind, op)
           rest == Truncate(SlotStack(s, op), 1)
           answer == IF NativeTimerDone(Operand(SlotStack(s, op), 1, 1))
                     THEN 1 ELSE 0
<1>1. CASE ~ native.defined
  BY <1>1 DEF LeavesStack
<1>2. CASE native.defined
  <2>1. native = IF op = "TimerDone" THEN NativePushed(rest, "Bool", answer)
                 ELSE Defined(rest)
    BY <1>2 DEF NativeTimer, When, Undefined
  <2>2. rest \in StackBytes
    BY <1>2, TimerChecked, TimerOperands
  <2>3. "Bool" \in Kind /\ answer \in Int
    BY DEF Kind
  <2> HIDE DEF rest, answer
  <2>4. LeavesStack(NativePushed(rest, "Bool", answer))
    BY <2>2, <2>3, PushedLeavesStack
  <2>5. LeavesStack(Defined(rest))
    BY <2>2 DEF LeavesStack, Defined
  <2>6. QED
    BY <2>1, <2>4, <2>5
<1>3. QED
  BY <1>1, <1>2

-----------------------------------------------------------------------------
(* The inductive invariant of the native VM: its variables are in their    *)
(* ranges, and the program it is bound to is one that it accepted.         *)

NativeTimeType ==
  /\ nativeTime \in [current : 0 .. MaxTime, ticks : 0 .. TickBase - 1,
                     tickTime : 0 .. MaxTime]
  /\ nativeTimers \in [TimerId -> [endTimeMS : 0 .. MaxTime,
                                   durationMS : 0 .. MaxTime]]

NativeFlowType ==
  /\ nativeMode \in {"idle", "script", "host", "broken"}
  /\ nativeMode \in {"script", "host"} => nativeProgram \in Programs
  /\ nativePC \in Nat

NativeBindingType ==
  /\ nativeProgram \in Programs \cup {NoProgram}
  /\ nativeProgram # NoProgram => NativeAccepts(nativeProgram)
  /\ nativeDispatcher \in BOOLEAN

NativeCallsType ==
  /\ nativeFrames \in Seq(NativeFrameType)
  /\ Len(nativeFrames) <= CallFrameCapacity
  /\ nativeFrameTop \in 0 .. FrameCapacity

NativeInv ==
  /\ NativeFlowType
  /\ NativeBindingType
  /\ NativeCallsType
  /\ nativeMemory \in Memory
  /\ NativeTimeType

LEMMA NativeInvImplies == NativeInv => NativeTypeOK
BY DEF NativeInv, NativeTypeOK, NativeFlowType, NativeBindingType,
       NativeCallsType, NativeTimeType, NativeFrameType, Memory, Bytes

LEMMA NoTimersType ==
  NoTimers \in [TimerId -> [endTimeMS : 0 .. MaxTime, durationMS : 0 .. MaxTime]]
BY TimeAssumption DEF NoTimers

LEMMA FreshMemoryType == FreshMemory \in Memory
<1>1. Zeroes(FrameCapacity) \in Seq(Byte) /\ Len(Zeroes(FrameCapacity)) = FrameCapacity
  BY VMAssumption, ZeroesBytes
<1>2. Frame \in Segment /\ Stack \in Segment /\ Stack # Frame
  BY DEF Frame, Stack, Segment
<1>3. << >> \in Seq(Byte) /\ Len(<< >>) = 0
  OBVIOUS
<1>4. FreshMemory \in [Segment -> Seq(Byte)]
  BY <1>1, <1>3 DEF FreshMemory
<1>5. FreshMemory[Frame] = Zeroes(FrameCapacity) /\ FreshMemory[Stack] = << >>
  BY <1>2 DEF FreshMemory
<1>6. QED
  BY <1>1, <1>3, <1>4, <1>5, VMAssumption DEF Memory

LEMMA FreshNative ==
  ASSUME nativeMode = "idle", nativeProgram = NoProgram,
         nativeMemory = FreshMemory, nativePC = 0, nativeFrames = << >>,
         nativeFrameTop = 0, nativeDispatcher \in BOOLEAN,
         nativeTime = FreshTime, nativeTimers = NoTimers
  PROVE  NativeInv
<1>1. NativeTimeType
  <2>1. FreshTime \in [current : 0 .. MaxTime, ticks : 0 .. TickBase - 1,
                       tickTime : 0 .. MaxTime]
    BY TimeAssumption, NativeAssumption DEF FreshTime
  <2>2. QED
    BY <2>1, NoTimersType DEF NativeTimeType
<1>2. NativeCallsType
  <2>1. << >> \in Seq(NativeFrameType) /\ Len(<< >>) = 0
    OBVIOUS
  <2>2. QED
    BY <2>1, VMAssumption DEF NativeCallsType
<1>3. nativeMemory \in Memory
  BY FreshMemoryType
<1>4. NativeFlowType /\ NativeBindingType
  BY DEF NativeFlowType, NativeBindingType
<1>5. QED
  BY <1>1, <1>2, <1>3, <1>4 DEF NativeInv

LEMMA NativeInvInit == BothInit => NativeInv
BY FreshNative DEF BothInit, NativeInit

-----------------------------------------------------------------------------
(* Each step of the native VM preserves it. *)

LEMMA NativeFetched ==
  ASSUME NativeInv, NEW op, NativeFetch(op)
  PROVE  /\ NativeInstr \in Instruction
         /\ nativeMode = "script"
         /\ nativeProgram \in Programs /\ nativeProgram \in LinkedProgram
         /\ NativeStack \in StackBytes
         /\ UNCHANGED nativeBinding
<1>1. /\ nativeMode = "script" /\ nativeProgram \in Programs
      /\ UNCHANGED nativeBinding /\ nativePC \in Nat
      /\ nativePC < Len(nativeProgram.text)
  BY DEF NativeInv, NativeFlowType, NativeFetch
<1>2. nativeProgram \in LinkedProgram
  BY <1>1, VMAssumption
<1>3. nativeProgram.text \in Seq(Instruction)
  BY <1>2 DEF LinkedProgram
<1>4. NativeInstr \in Instruction
  BY <1>1, <1>3 DEF NativeInstr
<1>5. NativeStack \in StackBytes
  BY DEF NativeInv, NativeStack, Memory, StackBytes, Segment, Stack
<1>6. QED
  BY <1>1, <1>2, <1>4, <1>5

LEMMA BindingKept ==
  ASSUME NativeInv, UNCHANGED nativeBinding
  PROVE  NativeBindingType'
<1>1. nativeProgram' = nativeProgram /\ nativeDispatcher' = nativeDispatcher
  BY DEF nativeBinding
<1>2. NativeAccepts(nativeProgram') <=> NativeAccepts(nativeProgram)
  BY <1>1
<1>3. QED
  BY <1>1, <1>2 DEF NativeInv, NativeBindingType

LEMMA NativeTimeKept ==
  ASSUME NativeInv, UNCHANGED nativeTimeVars
  PROVE  NativeTimeType'
BY DEF NativeInv, NativeTimeType, nativeTimeVars

LEMMA BreakType ==
  ASSUME NativeInv, UNCHANGED nativeBinding, Break
  PROVE  NativeInv'
<1>1. NativeBindingType' /\ NativeTimeType'
  BY BindingKept, NativeTimeKept DEF Break
<1>2. NativeFlowType' /\ NativeCallsType' /\ nativeMemory' \in Memory
  BY DEF NativeInv, NativeFlowType, NativeCallsType, Break, nativeCallVars
<1>3. QED
  BY <1>1, <1>2 DEF NativeInv

LEMMA ContinueAtType ==
  ASSUME NativeInv, UNCHANGED nativeBinding, NEW target \in Nat,
         NEW mem \in Memory, ContinueAt(target, mem), NativeTimeType'
  PROVE  NativeInv'
<1>1. NativeBindingType'
  BY BindingKept
<1>2. NativeFlowType' /\ NativeCallsType' /\ nativeMemory' \in Memory
  BY DEF NativeInv, NativeFlowType, NativeCallsType, ContinueAt, nativeCallVars,
         nativeBinding
<1>3. QED
  BY <1>1, <1>2 DEF NativeInv

LEMMA NextPC ==
  ASSUME NativeInv
  PROVE  nativePC \in Nat /\ nativePC + 1 \in Nat
BY DEF NativeInv, NativeFlowType

LEMMA NativeOperateType ==
  ASSUME NativeInv, NEW op, NativeFetch(op), NEW native, LeavesStack(native),
         NativeOperate(native)
  PROVE  NativeInv'
<1>1. UNCHANGED nativeBinding
  BY NativeFetched
<1>2. CASE ~ native.defined
  BY <1>1, <1>2, BreakType DEF NativeOperate
<1>3. CASE native.defined
  <2>1. native.stack \in StackBytes /\ nativeMemory \in Memory
    BY <1>3 DEF LeavesStack, NativeInv
  <2>2. [nativeMemory EXCEPT ![Stack] = native.stack] \in Memory
    BY <2>1, MemoryStack
  <2>3. /\ ContinueAt(nativePC + 1,
                      [nativeMemory EXCEPT ![Stack] = native.stack])
        /\ UNCHANGED nativeTimeVars
    BY <1>3 DEF NativeOperate
  <2>4. QED
    BY <1>1, <2>2, <2>3, NextPC, NativeTimeKept, ContinueAtType
<1>4. QED
  BY <1>2, <1>3

LEMMA InstructionFields ==
  ASSUME NEW instr \in Instruction
  PROVE  /\ instr.kind \in Kind /\ instr.from \in Kind
         /\ instr.segment \in 0 .. 15 /\ instr.arg \in Nat
BY DEF Instruction

LEMMA NativeStackStep ==
  ASSUME NativeInv,
         \/ NativeDoesPush \/ NativeDoesArithmetic \/ NativeDoesConvert
         \/ NativeDoesAddr \/ NativeDoesOffset \/ NativeDoesDereference
         \/ NativeDoesCompare
  PROVE  NativeInv'
<1>1. PICK op : NativeFetch(op)
  BY DEF NativeDoesPush, NativeDoesArithmetic, NativeDoesConvert,
         NativeDoesAddr, NativeDoesOffset, NativeDoesDereference,
         NativeDoesCompare
<1>2. /\ NativeInstr.kind \in Kind /\ NativeInstr.from \in Kind
      /\ NativeInstr.segment \in 0 .. 15 /\ NativeInstr.arg \in Nat
      /\ NativeStack \in StackBytes
  BY <1>1, NativeFetched, InstructionFields
<1>3. nativeFrames \in Seq(NativeFrameType) /\ nativeMemory \in Memory
  BY DEF NativeInv, NativeCallsType
<1>4. PICK native : LeavesStack(native) /\ NativeOperate(native)
  <2>1. CASE NativeDoesPush
    BY <1>2, <2>1, StackInstructionsLeaveStack DEF NativeDoesPush
  <2>2. CASE NativeDoesArithmetic
    BY <1>2, <2>2, StackInstructionsLeaveStack DEF NativeDoesArithmetic
  <2>3. CASE NativeDoesConvert
    BY <1>2, <2>3, StackInstructionsLeaveStack DEF NativeDoesConvert
  <2>4. CASE NativeDoesAddr
    BY <1>2, <1>3, <2>4, AddrLeavesStack DEF NativeDoesAddr
  <2>5. CASE NativeDoesOffset
    BY <1>2, <2>5, StackInstructionsLeaveStack DEF NativeDoesOffset
  <2>6. CASE NativeDoesDereference
    BY <1>2, <1>3, <2>6, DereferenceLeavesStack DEF NativeDoesDereference
  <2>7. CASE NativeDoesCompare
    BY <1>2, <2>7, StackInstructionsLeaveStack DEF NativeDoesCompare
  <2>8. QED
    BY <2>1, <2>2, <2>3, <2>4, <2>5, <2>6, <2>7
<1>5. QED
  BY <1>1, <1>4, NativeOperateType

LEMMA NativeTickTimeStep ==
  ASSUME NativeInv, NativeDoesTickTime
  PROVE  NativeInv'
<1>1. NativeFetch("BuiltIn")
        /\ NativeOperate(NativeTickTime(NativeStack, NativeInstr.kind))
  BY DEF NativeDoesTickTime
<1>2. NativeStack \in StackBytes /\ NativeInstr.kind \in Kind
  BY <1>1, NativeFetched, InstructionFields
<1>3. nativeTime.tickTime \in Int
  BY TimeAssumption DEF NativeInv, NativeTimeType
<1>4. LeavesStack(NativeTickTime(NativeStack, NativeInstr.kind))
  <2>1. CASE NativeInstr.kind = "Int32"
    <3>1. NativeTickTime(NativeStack, NativeInstr.kind)
            = NativePushed(NativeStack, NativeInstr.kind, nativeTime.tickTime)
      BY <2>1 DEF NativeTickTime, When
    <3>2. QED
      BY <1>2, <1>3, <3>1, PushedLeavesStack
  <2>2. CASE NativeInstr.kind # "Int32"
    <3>1. NativeTickTime(NativeStack, NativeInstr.kind) = Undefined
      BY <2>2 DEF NativeTickTime, When
    <3>2. QED
      BY <3>1, NothingLeft
  <2>3. QED
    BY <2>1, <2>2
<1>5. QED
  BY <1>1, <1>4, NativeOperateType

LEMMA NativeAssignStep ==
  ASSUME NativeInv, NativeDoesAssign
  PROVE  NativeInv'
<1> DEFINE native == NativeAssign(NativeStack, NativeInstr.kind)
<1>1. NativeFetch("Assign")
  BY DEF NativeDoesAssign
<1>2. /\ NativeStack \in StackBytes /\ NativeInstr.kind \in Kind
      /\ UNCHANGED nativeBinding /\ nativeMemory \in Memory
  BY <1>1, NativeFetched, InstructionFields DEF NativeInv
<1>3. CASE ~ native.defined
  BY <1>2, <1>3, BreakType DEF NativeDoesAssign
<1>4. CASE native.defined
  <2>1. /\ ContinueAt(nativePC + 1, NativeAssigned(NativeStack, NativeInstr.kind))
        /\ UNCHANGED nativeTimeVars
    BY <1>4 DEF NativeDoesAssign
  <2>2. NativeAssigned(NativeStack, NativeInstr.kind) \in Memory
    BY <1>2, <1>4, AssignedInMemory
  <2>3. QED
    BY <1>2, <2>1, <2>2, NextPC, NativeTimeKept, ContinueAtType
<1>5. QED
  BY <1>3, <1>4

(* A deadline saturates. *)
LEMMA EndTimeRange ==
  ASSUME NativeTimeType, NEW duration \in 0 .. MaxTime
  PROVE  EndTime(duration) \in 0 .. MaxTime
<1>1. nativeTime.current \in 0 .. MaxTime
  BY DEF NativeTimeType
<1>2. QED
  BY <1>1, TimeAssumption DEF EndTime, NativeSaturatingAdd

LEMMA TimerAfterType ==
  ASSUME NativeTimeType, NEW op \in TimerBuiltIn, NEW id \in TimerId,
         NEW duration, op = "TimerStart" => duration \in 0 .. MaxTime
  PROVE  TimerAfter(op, id, duration)
           \in [endTimeMS : 0 .. MaxTime, durationMS : 0 .. MaxTime]
<1>1. nativeTimers[id] \in [endTimeMS : 0 .. MaxTime, durationMS : 0 .. MaxTime]
  BY DEF NativeTimeType
<1>2. 0 \in 0 .. MaxTime
  BY TimeAssumption
<1>3. CASE op = "TimerStart"
  <2>1. EndTime(duration) \in 0 .. MaxTime
    BY <1>3, EndTimeRange
  <2>2. QED
    BY <1>3, <2>1 DEF TimerAfter
<1>4. CASE op = "TimerStop"
  BY <1>2, <1>4 DEF TimerAfter
<1>5. CASE op = "TimerReset"
  <2>1. EndTime(nativeTimers[id].durationMS) \in 0 .. MaxTime
    BY <1>1, EndTimeRange
  <2>2. TimerAfter(op, id, duration)
          = [nativeTimers[id] EXCEPT !.endTimeMS = EndTime(nativeTimers[id].durationMS)]
    BY <1>5 DEF TimerAfter
  <2> HIDE DEF TimerAfter, EndTime
  <2>3. QED
    BY <1>1, <2>1, <2>2
<1>6. CASE op = "TimerDone"
  BY <1>1, <1>6 DEF TimerAfter
<1>7. QED
  BY <1>3, <1>4, <1>5, <1>6 DEF TimerBuiltIn

LEMMA NativeTimerStep ==
  ASSUME NativeInv, NativeDoesTimer
  PROVE  NativeInv'
<1> DEFINE op == NativeInstr.sub
           kind == NativeInstr.kind
           native == NativeTimer(NativeStack, kind, op)
           id == Operand(SlotStack(NativeStack, op), 1, 1)
           duration == Operand(NativeStack, 4, 1)
<1>1. NativeFetch("BuiltIn") /\ op \in TimerBuiltIn
  BY DEF NativeDoesTimer
<1>2. /\ NativeStack \in StackBytes /\ kind \in Kind
      /\ UNCHANGED nativeBinding /\ nativeMemory \in Memory
  BY <1>1, NativeFetched, InstructionFields DEF NativeInv
<1>3. CASE ~ native.defined
  BY <1>2, <1>3, BreakType DEF NativeDoesTimer
<1>4. CASE native.defined
  <2>1. /\ ContinueAt(nativePC + 1, [nativeMemory EXCEPT ![Stack] = native.stack])
        /\ nativeTimers' = [nativeTimers EXCEPT ![id] = TimerAfter(op, id, duration)]
        /\ UNCHANGED nativeTime
    BY <1>4 DEF NativeDoesTimer
  <2>2. [nativeMemory EXCEPT ![Stack] = native.stack] \in Memory
    BY <1>1, <1>2, <1>4, TimerLeavesStack, MemoryStack DEF LeavesStack
  <2>3. id \in TimerId
    BY <1>4, TimerChecked
  <2>4. op = "TimerStart" => duration \in 0 .. MaxTime
    <3>1. op = "TimerStart" => duration \in Word
      BY <1>1, <1>2, <1>4, TimerChecked, TimerOperands
    <3>2. Word \subseteq 0 .. MaxTime
      BY TimeAssumption, VMAssumption, WordMax DEF Word
    <3>3. QED
      BY <3>1, <3>2
  <2>5. TimerAfter(op, id, duration)
          \in [endTimeMS : 0 .. MaxTime, durationMS : 0 .. MaxTime]
    BY <1>1, <2>3, <2>4, TimerAfterType DEF NativeInv
  <2>6. NativeTimeType'
    BY <2>1, <2>5 DEF NativeInv, NativeTimeType
  <2>7. QED
    BY <1>2, <2>1, <2>2, <2>6, NextPC, ContinueAtType
<1>5. QED
  BY <1>3, <1>4

-----------------------------------------------------------------------------
(* What the native VM asserts of a call is what the Go VM checks, except   *)
(* for the body's address, which the load has seen to.                     *)

LEMMA EnterMirrors ==
  ASSUME NEW p \in LinkedProgram, NativeAccepts(p), NEW f \in Nat,
         NEW s \in Seq(Byte), NEW base \in Nat, NEW depth \in Nat
  PROVE  NativeEnterable(p, f, s, base, depth)
           <=> EnterStatus(p, f, s, base, depth) = "OK"
<1> DEFINE fn == p.functions[f + 1]
<1>1. p.functions \in Seq(Function) /\ Len(s) \in Nat
  BY DEF LinkedProgram
<1>2. CASE f >= Len(p.functions)
  <2>1. ~ (f < Len(p.functions))
    BY <1>1, <1>2
  <2>2. QED
    BY <1>2, <2>1 DEF NativeEnterable, EnterStatus
<1>3. CASE ~ (f >= Len(p.functions))
  <2>1. f < Len(p.functions) /\ f + 1 \in DOMAIN p.functions
    BY <1>1, <1>3
  <2>2. fn \in Function
    BY <1>1, <2>1
  <2>3. /\ fn.bodyAddress < Len(p.text) /\ fn.bodyAddress \in Nat
        /\ Len(p.text) \in Nat /\ fn.frameByteSize \in Nat
    BY <2>1, <2>2 DEF NativeAccepts, LinkedProgram, Function
  <2>4. ArgumentBytes(p, fn, 1) \in Nat
    BY <2>2, ArgumentBytesOrder
  <2> HIDE DEF fn
  <2>5. /\ ~ (fn.bodyAddress >= Len(p.text))
        /\ ArgumentBytes(p, fn, 1) <= Len(s) <=> ~ (ArgumentBytes(p, fn, 1) > Len(s))
        /\ depth < CallFrameCapacity <=> ~ (depth >= CallFrameCapacity)
    BY <1>1, <2>3, <2>4, VMAssumption
  <2>6. NativeEnterable(p, f, s, base, depth) <=>
          /\ depth < CallFrameCapacity
          /\ ParamsInRange(p, fn)
          /\ base + fn.frameByteSize <= FrameCapacity
          /\ ParamsFit(p, fn)
          /\ ArgumentBytes(p, fn, 1) <= Len(s)
    BY <2>1 DEF NativeEnterable, fn
  <2>7. EnterStatus(p, f, s, base, depth) = "OK" <=>
          /\ ~ (fn.bodyAddress >= Len(p.text))
          /\ ParamsInRange(p, fn) /\ ParamsFit(p, fn)
          /\ ~ (ArgumentBytes(p, fn, 1) > Len(s))
          /\ base + fn.frameByteSize <= FrameCapacity
          /\ ~ (depth >= CallFrameCapacity)
    BY <1>3 DEF EnterStatus, FrameFitsAt, fn
  <2>8. QED
    BY <2>5, <2>6, <2>7
<1>4. QED
  BY <1>2, <1>3

(* An entry function without parameters can always be entered.             *)
LEMMA EntryEnterable ==
  ASSUME NEW p \in LinkedProgram, NativeAccepts(p),
         p.functions[p.entryPoint + 1].paramCount = 0, NEW s \in Seq(Byte)
  PROVE  NativeEnterable(p, p.entryPoint, s, 0, 0)
<1> DEFINE fn == p.functions[p.entryPoint + 1]
<1>1. /\ p.functions \in Seq(Function) /\ Len(s) \in Nat /\ p.entryPoint \in Nat
      /\ p.paramKinds \in Seq(Kind) /\ p.paramOffsets \in Seq(Nat)
  BY DEF LinkedProgram
<1>2. p.entryPoint < Len(p.functions) /\ Len(p.paramKinds) = Len(p.paramOffsets)
  BY DEF NativeAccepts
<1>3. p.entryPoint + 1 \in DOMAIN p.functions
  BY <1>1, <1>2
<1>4. fn \in Function
  BY <1>1, <1>3
<1>5. /\ fn.paramStart + fn.paramCount <= Len(p.paramKinds)
      /\ fn.frameByteSize <= FrameCapacity
  BY <1>3 DEF NativeAccepts
<1>6. ArgumentBytes(p, fn, 1) = 0 /\ Params(fn) = {}
  BY <1>4, EntryWithoutParams DEF Params
<1>7. fn.frameByteSize \in Nat
  BY <1>4 DEF Function
<1> HIDE DEF fn
<1>8. ParamsInRange(p, fn) /\ ParamsFit(p, fn)
  BY <1>2, <1>5, <1>6 DEF ParamsInRange, ParamsFit
<1>9. /\ 0 < CallFrameCapacity /\ 0 + fn.frameByteSize <= FrameCapacity
      /\ ArgumentBytes(p, fn, 1) <= Len(s)
  BY <1>1, <1>5, <1>6, <1>7, VMAssumption
<1>10. QED
  BY <1>2, <1>8, <1>9 DEF NativeEnterable, fn

LEMMA NativeEnterType ==
  ASSUME nativeProgram \in LinkedProgram, NativeAccepts(nativeProgram),
         NEW f \in Nat, NEW m \in Memory, NEW frames \in Seq(NativeFrameType),
         NEW base \in 0 .. FrameCapacity, NEW returnPC \in Nat,
         NativeEnterable(nativeProgram, f, m[Stack], base, Len(frames)),
         NativeEnter(f, m, frames, base, returnPC)
  PROVE  nativeMemory' \in Memory /\ NativeCallsType' /\ nativePC' \in Nat
<1> DEFINE fn == nativeProgram.functions[f + 1]
           frame == Activation(fn, base, returnPC)
<1>1. base \in Nat /\ Len(frames) \in Nat /\ m[Stack] \in Seq(Byte)
  BY VMAssumption DEF Memory, Segment, Stack
<1>2. EnterStatus(nativeProgram, f, m[Stack], base, Len(frames)) = "OK"
  BY <1>1, EnterMirrors
<1>3. /\ fn \in Function /\ base + fn.frameByteSize <= FrameCapacity
      /\ Len(frames) < CallFrameCapacity
  BY <1>1, <1>2, EnterChecked
<1>4. fn.frameByteSize \in Nat /\ fn.bodyAddress \in Nat /\ fn.returnKind \in Kind
  BY <1>3 DEF Function
<1>5. /\ nativeMemory' = Entered(nativeProgram, fn, m, base)
      /\ nativeFrames' = Append(frames, frame)
      /\ nativeFrameTop' = base + fn.frameByteSize
      /\ nativePC' = fn.bodyAddress
  BY DEF NativeEnter
<1>6. Entered(nativeProgram, fn, m, base) \in Memory
  BY <1>1, <1>2, EnteredType
<1> HIDE DEF fn
<1>7. frame \in NativeFrameType
  BY <1>4 DEF Activation, NativeFrameType
<1> HIDE DEF frame
<1>8. Append(frames, frame) \in Seq(NativeFrameType)
        /\ Len(Append(frames, frame)) = Len(frames) + 1
  BY <1>7
<1>9. Len(frames) + 1 <= CallFrameCapacity /\ base + fn.frameByteSize \in 0 .. FrameCapacity
  BY <1>1, <1>3, <1>4, VMAssumption
<1>10. QED
  BY <1>4, <1>5, <1>6, <1>8, <1>9 DEF NativeCallsType

-----------------------------------------------------------------------------

LEMMA NativeJumpToType ==
  ASSUME NativeInv, UNCHANGED nativeBinding, NEW target \in Nat,
         NEW mem \in Memory, NativeJumpTo(target, mem)
  PROVE  NativeInv'
BY BreakType, ContinueAtType, NativeTimeKept DEF NativeJumpTo

LEMMA NativeJumpStep ==
  ASSUME NativeInv, NativeDoesJump \/ NativeDoesJumpIfFalse
  PROVE  NativeInv'
<1>1. PICK op : NativeFetch(op)
  BY DEF NativeDoesJump, NativeDoesJumpIfFalse
<1>2. /\ NativeStack \in StackBytes /\ NativeInstr.arg \in Nat
      /\ UNCHANGED nativeBinding /\ nativeMemory \in Memory
  BY <1>1, NativeFetched, InstructionFields DEF NativeInv
<1>3. CASE NativeDoesJump
  BY <1>2, <1>3, NativeJumpToType DEF NativeDoesJump
<1>4. CASE NativeDoesJumpIfFalse
  <2> DEFINE popped == [nativeMemory EXCEPT ![Stack] = Truncate(@, 1)]
  <2>1. CASE ~ (Len(NativeStack) >= 1)
    <3>1. Break
      BY <1>4, <2>1 DEF NativeDoesJumpIfFalse
    <3>2. QED
      BY <1>2, <3>1, BreakType
  <2>2. CASE Len(NativeStack) >= 1
    <3>1. popped \in Memory
      <4>1. Len(NativeStack) \in Nat
        BY <1>2 DEF StackBytes
      <4>2. 1 \in 0 .. Len(NativeStack)
        BY <2>2, <4>1
      <4>3. Truncate(NativeStack, 1) \in StackBytes
        BY <1>2, <4>2, TruncateStack
      <4>4. popped = [nativeMemory EXCEPT ![Stack] = Truncate(NativeStack, 1)]
        BY DEF NativeStack
      <4>5. QED
        BY <1>2, <4>3, <4>4, MemoryStack
    <3>2. \/ Break
          \/ ContinueAt(nativePC + 1, popped) /\ UNCHANGED nativeTimeVars
          \/ NativeJumpTo(NativeInstr.arg, popped)
      BY <1>4, <2>2 DEF NativeDoesJumpIfFalse
    <3> HIDE DEF popped
    <3>3. QED
      BY <1>2, <3>1, <3>2, BreakType, NextPC, ContinueAtType, NativeTimeKept,
         NativeJumpToType
  <2>3. QED
    BY <2>1, <2>2
<1>5. QED
  BY <1>3, <1>4

LEMMA NativeCallStep ==
  ASSUME NativeInv, NativeDoesCall
  PROVE  NativeInv'
<1> DEFINE enterable == NativeEnterable(nativeProgram, NativeInstr.arg, NativeStack,
                                        nativeFrameTop, Len(nativeFrames))
<1>1. NativeFetch("Call")
  BY DEF NativeDoesCall
<1>2. /\ NativeStack \in StackBytes /\ NativeInstr.arg \in Nat
      /\ UNCHANGED nativeBinding /\ nativeMemory \in Memory
      /\ nativeProgram \in LinkedProgram /\ nativeProgram \in Programs
      /\ nativeMode = "script"
  BY <1>1, NativeFetched, InstructionFields DEF NativeInv
<1>3. CASE ~ enterable
  BY <1>2, <1>3, BreakType DEF NativeDoesCall
<1>4. CASE enterable
  <2>1. /\ NativeEnter(NativeInstr.arg, nativeMemory, nativeFrames, nativeFrameTop,
                       nativePC + 1)
        /\ UNCHANGED << nativeMode, nativeTimeVars >>
    BY <1>4 DEF NativeDoesCall
  <2>2. NativeAccepts(nativeProgram)
    BY <1>2, VMAssumption DEF NativeInv, NativeBindingType
  <2>3. /\ nativeFrames \in Seq(NativeFrameType)
        /\ nativeFrameTop \in 0 .. FrameCapacity
    BY DEF NativeInv, NativeCallsType
  <2>4. nativeMemory' \in Memory /\ NativeCallsType' /\ nativePC' \in Nat
    BY <1>2, <1>4, <2>1, <2>2, <2>3, NextPC, NativeEnterType DEF NativeStack
  <2>5. NativeFlowType'
    BY <1>2, <2>1, <2>4 DEF NativeFlowType, nativeBinding
  <2>6. QED
    BY <1>2, <2>1, <2>4, <2>5, BindingKept, NativeTimeKept DEF NativeInv
<1>5. QED
  BY <1>3, <1>4

LEMMA NativeCallExternStep ==
  ASSUME NativeInv, NativeDoesCallExtern
  PROVE  NativeInv'
<1>1. NativeFetch("CallExtern")
  BY DEF NativeDoesCallExtern
<1>2. UNCHANGED nativeBinding /\ nativeProgram \in Programs
  BY <1>1, NativeFetched
<1>3. CASE ~ nativeDispatcher
  BY <1>2, <1>3, BreakType DEF NativeDoesCallExtern
<1>4. CASE nativeDispatcher
  <2>1. /\ nativeMode' = "host" /\ nativePC' = nativePC + 1
        /\ UNCHANGED << nativeMemory, nativeCallVars, nativeTimeVars >>
    BY <1>4 DEF NativeDoesCallExtern
  <2>2. NativeFlowType' /\ NativeCallsType' /\ nativeMemory' \in Memory
    BY <1>2, <2>1, NextPC
       DEF NativeInv, NativeFlowType, NativeCallsType, nativeCallVars, nativeBinding
  <2>3. QED
    BY <1>2, <2>1, <2>2, BindingKept, NativeTimeKept DEF NativeInv
<1>5. QED
  BY <1>3, <1>4

LEMMA NativeRetStep ==
  ASSUME NativeInv, NativeDoesRet
  PROVE  NativeInv'
<1> DEFINE frame == nativeFrames[Len(nativeFrames)]
           returns == /\ nativeFrames # << >>
                      /\ KindSize(frame.returnKind) <= Len(NativeStack)
<1>1. NativeFetch("Ret")
  BY DEF NativeDoesRet
<1>2. UNCHANGED nativeBinding /\ nativeProgram \in Programs
  BY <1>1, NativeFetched
<1>3. CASE ~ returns
  BY <1>2, <1>3, BreakType DEF NativeDoesRet
<1>4. CASE returns
  <2>1. /\ nativeFrames' = BelowTop(nativeFrames)
        /\ nativeFrameTop' = frame.localBase
        /\ \/ nativeMode' = "idle" /\ UNCHANGED nativePC
           \/ nativePC' = frame.returnPC /\ UNCHANGED nativeMode
        /\ UNCHANGED << nativeMemory, nativeTimeVars >>
    BY <1>4 DEF NativeDoesRet
  <2>2. /\ nativeFrames \in Seq(NativeFrameType) /\ nativeFrames # << >>
        /\ Len(nativeFrames) <= CallFrameCapacity
    BY <1>4 DEF NativeInv, NativeCallsType
  <2>3. frame \in NativeFrameType
    BY <2>2
  <2>4. frame.localBase \in 0 .. FrameCapacity /\ frame.returnPC \in Nat
    BY <2>3 DEF NativeFrameType
  <2>5. /\ BelowTop(nativeFrames) \in Seq(NativeFrameType)
        /\ Len(BelowTop(nativeFrames)) = Len(nativeFrames) - 1
        /\ Len(nativeFrames) \in Nat
    BY <2>2, BelowTopType, BelowTopLength
  <2>6. NativeCallsType'
    BY <2>1, <2>2, <2>4, <2>5, VMAssumption DEF NativeCallsType
  <2>7. NativeFlowType' /\ nativeMemory' \in Memory
    BY <1>2, <2>1, <2>4 DEF NativeInv, NativeFlowType, nativeBinding
  <2>8. QED
    BY <1>2, <2>1, <2>6, <2>7, BindingKept, NativeTimeKept DEF NativeInv
<1>5. QED
  BY <1>3, <1>4

LEMMA NativeEndStep ==
  ASSUME NativeInv, NativeDoesUnknown \/ NativeEndOfText
  PROVE  NativeInv'
<1>1. CASE NativeDoesUnknown
  BY <1>1, NativeFetched, BreakType DEF NativeDoesUnknown
<1>2. CASE NativeEndOfText
  <2>1. UNCHANGED nativeBinding /\ UNCHANGED nativeTimeVars
    BY <1>2 DEF NativeEndOfText
  <2>2. NativeFlowType' /\ NativeCallsType' /\ nativeMemory' \in Memory
    BY <1>2 DEF NativeInv, NativeFlowType, NativeCallsType, nativeCallVars,
                NativeEndOfText
  <2>3. QED
    BY <2>1, <2>2, BindingKept, NativeTimeKept DEF NativeInv
<1>3. QED
  BY <1>1, <1>2

LEMMA NativeExecuteType ==
  ASSUME NativeInv, NativeExecute
  PROVE  NativeInv'
BY NativeStackStep, NativeTickTimeStep, NativeAssignStep, NativeTimerStep,
   NativeJumpStep, NativeCallStep, NativeCallExternStep, NativeRetStep,
   NativeEndStep
   DEF NativeExecute

-----------------------------------------------------------------------------
(* The host's side of the native VM. *)

LEMMA NativeLoadType ==
  ASSUME NativeInv, NEW p \in Programs, NativeLoad(p)
  PROVE  NativeInv'
<1>1. p \in LinkedProgram /\ p # NoProgram
  BY VMAssumption
<1>2. /\ Zeroes(p.bssByteSize) \in Seq(Byte)
      /\ p.dataData \in Seq(Byte) /\ p.constData \in Seq(Byte)
  BY <1>1, ZeroesBytes DEF LinkedProgram
<1>3. nativeMemory' \in Memory
  <2> DEFINE one == [nativeMemory EXCEPT ![BSS] = Zeroes(p.bssByteSize)]
             two == [one EXCEPT ![Data] = p.dataData]
  <2>1. {BSS, Data, Const} \subseteq Segment \ {Frame, Stack}
    BY DEF BSS, Data, Const, Segment, Frame, Stack
  <2>2. one \in Memory
    BY <1>2, <2>1, MemorySegment DEF NativeInv
  <2> HIDE DEF one
  <2>3. two \in Memory
    BY <1>2, <2>1, <2>2, MemorySegment
  <2> HIDE DEF two
  <2>4. [two EXCEPT ![Const] = p.constData] \in Memory
    BY <1>2, <2>1, <2>3, MemorySegment
  <2>5. nativeMemory' = [two EXCEPT ![Const] = p.constData]
    BY DEF NativeLoad, one, two
  <2>6. QED
    BY <2>4, <2>5
<1>4. NativeBindingType'
  <2>1. nativeProgram' = p /\ NativeAccepts(p) /\ nativeDispatcher' = nativeDispatcher
    BY DEF NativeLoad
  <2>2. NativeAccepts(nativeProgram')
    BY <2>1
  <2>3. QED
    BY <2>1, <2>2 DEF NativeInv, NativeBindingType
<1>5. NativeTimeType'
  BY NoTimersType DEF NativeLoad, NativeInv, NativeTimeType
<1>6. NativeFlowType' /\ NativeCallsType'
  BY DEF NativeLoad, NativeInv, NativeFlowType, NativeCallsType, nativeCallVars
<1>7. QED
  BY <1>3, <1>4, <1>5, <1>6 DEF NativeInv

LEMMA RestartedMemoryType ==
  ASSUME nativeMemory \in Memory
  PROVE  /\ RestartedMemory \in Memory
         /\ RestartedMemory[Stack] = << >>
         /\ RestartedMemory[Frame] = Zeroes(FrameCapacity)
         /\ \A segment \in Segment \ {Stack, Frame} :
              RestartedMemory[segment] = nativeMemory[segment]
<1>1. /\ nativeMemory \in [Segment -> Seq(Byte)]
      /\ Len(nativeMemory[Frame]) = FrameCapacity /\ FrameCapacity \in Nat
      /\ StackCapacity \in Nat
  BY VMAssumption DEF Memory
<1>2. Frame \in Segment /\ Stack \in Segment /\ Frame # Stack
  BY DEF Frame, Stack, Segment
<1>3. /\ Zeroes(FrameCapacity) \in Seq(Byte)
      /\ Len(Zeroes(FrameCapacity)) = FrameCapacity
      /\ << >> \in Seq(Byte) /\ Len(<< >>) = 0
  BY <1>1, ZeroesBytes
<1>4. RestartedMemory = [nativeMemory EXCEPT ![Stack] = << >>,
                                             ![Frame] = Zeroes(FrameCapacity)]
  BY <1>1, <1>2 DEF RestartedMemory
<1>5. /\ RestartedMemory[Stack] = << >>
      /\ RestartedMemory[Frame] = Zeroes(FrameCapacity)
      /\ RestartedMemory \in [Segment -> Seq(Byte)]
      /\ \A segment \in Segment \ {Stack, Frame} :
           RestartedMemory[segment] = nativeMemory[segment]
  BY <1>1, <1>2, <1>3, <1>4
<1>6. QED
  BY <1>1, <1>3, <1>5 DEF Memory

LEMMA BoundProgram ==
  ASSUME NativeInv, nativeProgram # NoProgram
  PROVE  /\ nativeProgram \in Programs /\ nativeProgram \in LinkedProgram
         /\ NativeAccepts(nativeProgram)
         /\ nativeProgram.entryPoint \in Nat
         /\ nativeProgram.functions[nativeProgram.entryPoint + 1] \in Function
<1>1. /\ nativeProgram \in Programs /\ nativeProgram \in LinkedProgram
      /\ NativeAccepts(nativeProgram)
  BY VMAssumption DEF NativeInv, NativeBindingType
<1>2. /\ nativeProgram.functions \in Seq(Function)
      /\ nativeProgram.entryPoint \in Nat
      /\ nativeProgram.entryPoint < Len(nativeProgram.functions)
  BY <1>1 DEF LinkedProgram, NativeAccepts
<1>3. QED
  BY <1>1, <1>2

LEMMA NativeRestartType ==
  ASSUME NativeInv, nativeProgram # NoProgram, NEW modeAfter \in {"idle", "script"},
         NativeRestart(modeAfter), UNCHANGED nativeBinding
  PROVE  /\ NativeFlowType' /\ NativeBindingType' /\ NativeCallsType'
         /\ nativeMemory' \in Memory
<1>1. /\ nativeProgram \in Programs /\ nativeProgram \in LinkedProgram
      /\ NativeAccepts(nativeProgram) /\ nativeProgram.entryPoint \in Nat
  BY BoundProgram
<1>2. RestartedMemory \in Memory /\ RestartedMemory[Stack] \in Seq(Byte)
  <2>1. << >> \in Seq(Byte) /\ nativeMemory \in Memory
    BY DEF NativeInv
  <2>2. RestartedMemory \in Memory /\ RestartedMemory[Stack] = << >>
    BY <2>1, RestartedMemoryType
  <2>3. QED
    BY <2>1, <2>2
<1>3. nativeProgram.functions[nativeProgram.entryPoint + 1].paramCount = 0
  BY DEF NativeRestart, EntryTakesParameters
<1>4. NativeEnterable(nativeProgram, nativeProgram.entryPoint,
                      RestartedMemory[Stack], 0, 0)
  BY <1>1, <1>2, <1>3, EntryEnterable
<1>5. << >> \in Seq(NativeFrameType) /\ Len(<< >>) = 0 /\ 0 \in 0 .. FrameCapacity
        /\ 0 \in Nat
  BY VMAssumption
<1>6. NativeEnter(nativeProgram.entryPoint, RestartedMemory, << >>, 0, 0)
        /\ nativeMode' = modeAfter
  BY DEF NativeRestart
<1>7. nativeMemory' \in Memory /\ NativeCallsType' /\ nativePC' \in Nat
  BY <1>1, <1>2, <1>4, <1>5, <1>6, NativeEnterType
<1>8. NativeFlowType'
  BY <1>1, <1>6, <1>7 DEF NativeFlowType, nativeBinding
<1>9. QED
  BY <1>7, <1>8, BindingKept

LEMMA NativeResetType ==
  ASSUME NativeInv, NativeReset
  PROVE  NativeInv'
<1>1. UNCHANGED nativeBinding /\ nativeProgram # NoProgram
  BY DEF NativeReset
<1>2. CASE Break
  BY <1>1, <1>2, BreakType
<1>3. CASE NativeRestart("idle") /\ UNCHANGED nativeTimeVars
  BY <1>1, <1>3, NativeRestartType, NativeTimeKept DEF NativeInv
<1>4. QED
  BY <1>2, <1>3 DEF NativeReset

LEMMA NativeRunType ==
  ASSUME NativeInv, NEW now \in Times, NativeRun(now)
  PROVE  NativeInv'
<1>1. UNCHANGED nativeBinding /\ nativeProgram # NoProgram
  BY DEF NativeRun
<1>2. CASE Break
  BY <1>1, <1>2, BreakType
<1>3. CASE /\ NativeRestart("script") /\ UNCHANGED nativeTimers
           /\ nativeTime' = TickedAt(nativeTime, now)
  <2>1. /\ nativeTime.current \in 0 .. MaxTime /\ nativeTime.ticks \in Nat
        /\ now \in 0 .. MaxTime /\ MaxTime \in Nat /\ TickBase \in Nat \ {0}
    BY TimeAssumption, NativeAssumption DEF NativeInv, NativeTimeType
  <2>2. (nativeTime.ticks + 1) % TickBase \in 0 .. TickBase - 1
    BY <2>1
  <2>3. (now - nativeTime.current) % (MaxTime + 1) \in 0 .. MaxTime
    BY <2>1
  <2>4. TickedAt(nativeTime, now)
          \in [current : 0 .. MaxTime, ticks : 0 .. TickBase - 1,
               tickTime : 0 .. MaxTime]
    BY <2>1, <2>2, <2>3 DEF TickedAt
  <2>5. NativeTimeType'
    BY <1>3, <2>4 DEF NativeInv, NativeTimeType
  <2>6. QED
    BY <1>1, <1>3, <2>5, NativeRestartType DEF NativeInv
<1>4. QED
  BY <1>2, <1>3 DEF NativeRun

LEMMA NativeHostStackType ==
  ASSUME NativeInv, NEW native, LeavesStack(native), NativeHostStack(native)
  PROVE  NativeInv'
<1>1. UNCHANGED nativeBinding
  BY DEF NativeHostStack
<1>2. CASE ~ native.defined
  BY <1>1, <1>2, BreakType DEF NativeHostStack
<1>3. CASE native.defined
  <2>1. [nativeMemory EXCEPT ![Stack] = native.stack] \in Memory
    BY <1>3, MemoryStack DEF LeavesStack, NativeInv
  <2>2. /\ ContinueAt(nativePC, [nativeMemory EXCEPT ![Stack] = native.stack])
        /\ UNCHANGED nativeTimeVars
    BY <1>3 DEF NativeHostStack
  <2>3. QED
    BY <1>1, <2>1, <2>2, NextPC, NativeTimeKept, ContinueAtType
<1>4. QED
  BY <1>2, <1>3

NativePopped(s, kind) ==
  When(KindSize(kind) > 0 /\ Len(s) >= KindSize(kind),
       Defined(Truncate(s, KindSize(kind))))

LEMMA NativeHostType ==
  ASSUME NativeInv, NEW kind \in HostKinds, NEW value \in HostValues,
         NativeHostPush(kind, value)
  PROVE  NativeInv'
<1>1. NativeStack \in StackBytes /\ kind \in Kind /\ value \in Int
  BY VMAssumption DEF NativeInv, NativeStack, Memory, StackBytes, Segment, Stack
<1>2. LeavesStack(NativePushed(NativeStack, kind, value))
  BY <1>1, PushedLeavesStack
<1>3. QED
  BY <1>2, NativeHostStackType DEF NativeHostPush

LEMMA NativePopType ==
  ASSUME NativeInv, NEW kind \in HostKinds, NativeHostPop(kind)
  PROVE  NativeInv'
<1>1. NativeStack \in StackBytes /\ kind \in Kind
  BY VMAssumption DEF NativeInv, NativeStack, Memory, StackBytes, Segment, Stack
<1>2. NativeHostStack(NativePopped(NativeStack, kind))
  BY DEF NativeHostPop, NativePopped
<1>3. LeavesStack(NativePopped(NativeStack, kind))
  <2>1. CASE ~ (KindSize(kind) > 0 /\ Len(NativeStack) >= KindSize(kind))
    <3>1. NativePopped(NativeStack, kind) = Undefined
      BY <2>1 DEF NativePopped, When
    <3>2. QED
      BY <3>1, NothingLeft
  <2>2. CASE KindSize(kind) > 0 /\ Len(NativeStack) >= KindSize(kind)
    <3>1. NativePopped(NativeStack, kind)
            = Defined(Truncate(NativeStack, KindSize(kind)))
      BY <2>2 DEF NativePopped, When
    <3>2. KindSize(kind) \in 0 .. Len(NativeStack)
      BY <1>1, <2>2, KindSizes DEF StackBytes
    <3>3. Truncate(NativeStack, KindSize(kind)) \in StackBytes
      BY <1>1, <3>2, TruncateStack
    <3>4. QED
      BY <3>1, <3>3 DEF LeavesStack, Defined
  <2>3. QED
    BY <2>1, <2>2
<1>4. QED
  BY <1>2, <1>3, NativeHostStackType

LEMMA NativeReturnType ==
  ASSUME NativeInv, NativeReturn
  PROVE  NativeInv'
<1>1. UNCHANGED nativeBinding /\ UNCHANGED nativeTimeVars
  BY DEF NativeReturn
<1>2. NativeFlowType' /\ NativeCallsType' /\ nativeMemory' \in Memory
  BY DEF NativeReturn, NativeInv, NativeFlowType, NativeCallsType, nativeCallVars,
         nativeBinding
<1>3. QED
  BY <1>1, <1>2, BindingKept, NativeTimeKept DEF NativeInv

LEMMA NativeRegisterType ==
  ASSUME NativeInv, NEW registered \in BOOLEAN, NativeRegister(registered)
  PROVE  NativeInv'
<1>1. /\ nativeDispatcher' \in BOOLEAN /\ UNCHANGED nativeProgram
      /\ UNCHANGED nativeTimeVars
  BY DEF NativeRegister
<1>2. NativeAccepts(nativeProgram') <=> NativeAccepts(nativeProgram)
  BY <1>1
<1>3. NativeBindingType'
  BY <1>1, <1>2 DEF NativeInv, NativeBindingType
<1>4. NativeFlowType' /\ NativeCallsType' /\ nativeMemory' \in Memory
  BY <1>1 DEF NativeRegister, NativeInv, NativeFlowType, NativeCallsType, nativeCallVars
<1>5. QED
  BY <1>1, <1>3, <1>4, NativeTimeKept DEF NativeInv

LEMMA NativeStutter ==
  ASSUME NativeInv, UNCHANGED nativeVars
  PROVE  NativeInv'
<1>1. UNCHANGED nativeBinding /\ UNCHANGED nativeTimeVars
  BY DEF nativeVars
<1>2. NativeFlowType' /\ NativeCallsType' /\ nativeMemory' \in Memory
  BY DEF NativeInv, NativeFlowType, NativeCallsType, nativeVars, nativeCallVars,
         nativeBinding
<1>3. QED
  BY <1>1, <1>2, BindingKept, NativeTimeKept DEF NativeInv

-----------------------------------------------------------------------------
(* What a step of the two does to each of them: one of its own, or none.   *)

NativeStep ==
  \/ NativeExecute
  \/ \E kind \in HostKinds : NativeHostPop(kind)
       \/ \E value \in HostValues : NativeHostPush(kind, value)
  \/ NativeReturn
  \/ \E p \in Programs : NativeLoad(p)
  \/ NativeRegister(TRUE)
  \/ NativeReset
  \/ \E now \in Times : NativeRun(now)
  \/ UNCHANGED nativeVars

LEMMA StepOfNative ==
  ASSUME BothNext
  PROVE  NativeStep \/ ReplacesNative
BY DEF BothNext, NativeStep, StepTogether, StepAlone, HostPops, HostPushes,
       HostReturns, LoadsBoth, LoadsGo, Registers, ResetsBoth, RunsBoth, RunsGo

LEMMA StepOfGo ==
  ASSUME BothNext
  PROVE  Next \/ UNCHANGED vars
BY DEF BothNext, Next, Host, StepTogether, StepAlone, HostPops, HostPushes,
       HostReturns, LoadsBoth, LoadsGo, Registers, ResetsBoth, RunsBoth, RunsGo,
       ReplacesNative

(* The Go VM beside a native one behaves as one by itself.                 *)
LEMMA GoRunsAlone == BothSpec => Spec
<1>1. BothInit => Init
  BY DEF BothInit
<1>2. [BothNext]_<< vars, nativeVars, apartVars >> => [Next]_vars
  BY StepOfGo
<1>3. QED
  BY <1>1, <1>2, PTL DEF BothSpec, Spec

LEMMA NativeStepKeeps ==
  ASSUME NativeInv, NativeStep
  PROVE  NativeInv'
<1>1. CASE \E kind \in HostKinds :
             NativeHostPop(kind) \/ \E value \in HostValues : NativeHostPush(kind, value)
  <2>1. PICK kind \in HostKinds :
          NativeHostPop(kind) \/ \E value \in HostValues : NativeHostPush(kind, value)
    BY <1>1
  <2>2. CASE \E value \in HostValues : NativeHostPush(kind, value)
    BY <2>2, NativeHostType
  <2>3. CASE NativeHostPop(kind)
    BY <2>3, NativePopType
  <2>4. QED
    BY <2>1, <2>2, <2>3
<1>2. CASE NativeRegister(TRUE)
  BY <1>2, NativeRegisterType
<1>3. CASE ~ NativeRegister(TRUE) /\ ~ \E kind \in HostKinds :
             NativeHostPop(kind) \/ \E value \in HostValues : NativeHostPush(kind, value)
  BY <1>3, NativeExecuteType, NativeReturnType, NativeLoadType, NativeResetType,
     NativeRunType, NativeStutter
     DEF NativeStep
<1>4. QED
  BY <1>1, <1>2, <1>3

LEMMA ReplacedType ==
  ASSUME TypeInv, ReplacesNative
  PROVE  NativeInv'
<1>1. hasDispatcher \in BOOLEAN
  BY DEF TypeInv, LoadType
<1>2. NativeTimeType'
  <2>1. FreshTime \in [current : 0 .. MaxTime, ticks : 0 .. TickBase - 1,
                       tickTime : 0 .. MaxTime]
    BY TimeAssumption, NativeAssumption DEF FreshTime
  <2>2. QED
    BY <2>1, NoTimersType DEF NativeTimeType, ReplacesNative
<1>3. NativeCallsType'
  <2>1. << >> \in Seq(NativeFrameType) /\ Len(<< >>) = 0
    OBVIOUS
  <2>2. QED
    BY <2>1, VMAssumption DEF NativeCallsType, ReplacesNative
<1>4. nativeMemory' \in Memory
  BY FreshMemoryType DEF ReplacesNative
<1>5. NativeFlowType' /\ NativeBindingType'
  BY <1>1 DEF NativeFlowType, NativeBindingType, ReplacesNative
<1>6. QED
  BY <1>2, <1>3, <1>4, <1>5 DEF NativeInv

LEMMA NativeInvStep ==
  TypeInv /\ NativeInv /\ [BothNext]_<< vars, nativeVars, apartVars >> => NativeInv'
BY StepOfNative, NativeStepKeeps, ReplacedType, NativeStutter

LEMMA NativeTyped == BothSpec => []NativeInv
<1>1. Spec => []TypeInv
  BY TypedAndLoaded, PTL
<1>2. QED
  BY <1>1, GoRunsAlone, NativeInvInit, NativeInvStep, PTL DEF BothSpec

(* Whatever program the host has loaded, and however the runs before ended, *)
(* what the native VM asserts on the way is enough: it never leaves its    *)
(* operand stack, frame memory, call frames or timers, writes no byte that *)
(* is none, and lets no deadline or tick time wrap.                        *)
THEOREM NativeTypeCorrect == BothSpec => []NativeTypeOK
<1>1. NativeInv => NativeTypeOK
  BY NativeInvImplies
<1>2. QED
  BY <1>1, NativeTyped, PTL

-----------------------------------------------------------------------------
(* Ticks keep the globals: a step of the host writes the operand stack, or *)
(* restarts the program with new frames, or loads it.                      *)

GlobalsKept ==
  \A segment \in {BSS, Data} : nativeMemory'[segment] = nativeMemory[segment]

LEMMA GlobalSegments ==
  {BSS, Data} \subseteq Segment \ {Stack, Frame, Const}
BY DEF BSS, Data, Stack, Frame, Const, Segment

LEMMA RestartKeepsGlobals ==
  ASSUME NativeInv, nativeProgram # NoProgram, NEW modeAfter,
         NativeRestart(modeAfter)
  PROVE  GlobalsKept /\ nativeMemory'[Stack] = << >>
<1> DEFINE fn == nativeProgram.functions[nativeProgram.entryPoint + 1]
<1>1. fn \in Function
  BY BoundProgram
<1>2. fn.paramCount = 0
  BY DEF NativeRestart, EntryTakesParameters
<1>3. nativeMemory' = Entered(nativeProgram, fn, RestartedMemory, 0)
  BY DEF NativeRestart, NativeEnter
<1> HIDE DEF fn
<1>4. ArgumentBytes(nativeProgram, fn, 1) = 0
  BY <1>1, <1>2, EntryWithoutParams
<1>5. /\ RestartedMemory \in Memory /\ RestartedMemory[Stack] = << >>
      /\ \A segment \in Segment \ {Stack, Frame} :
           RestartedMemory[segment] = nativeMemory[segment]
  BY RestartedMemoryType DEF NativeInv
<1>6. RestartedMemory \in [Segment -> Seq(Byte)] /\ Stack \in Segment /\ Stack # Frame
  BY <1>5 DEF Memory, Segment, Stack, Frame
<1>7. /\ nativeMemory'[Stack] = Truncate(<< >>, 0)
      /\ \A segment \in Segment \ {Stack, Frame} :
           nativeMemory'[segment] = RestartedMemory[segment]
  BY <1>3, <1>4, <1>5, <1>6 DEF Entered
<1>8. Truncate(<< >>, 0) = << >>
  BY DEF Truncate
<1>9. QED
  BY <1>5, <1>7, <1>8, GlobalSegments DEF GlobalsKept

LEMMA LoadSetsGlobals ==
  ASSUME NativeInv, NEW p, NativeLoad(p)
  PROVE  /\ nativeMode = "idle" /\ nativeMode' = "idle"
         /\ nativeMemory'[BSS] = Zeroes(nativeProgram'.bssByteSize)
         /\ nativeMemory'[Data] = nativeProgram'.dataData
<1>1. nativeMemory \in [Segment -> Seq(Byte)] /\ {BSS, Data, Const} \subseteq Segment
  BY DEF NativeInv, Memory, BSS, Data, Const, Segment
<1>2. BSS # Data /\ BSS # Const /\ Data # Const
  BY DEF BSS, Data, Const
<1>3. QED
  BY <1>1, <1>2 DEF NativeLoad

LEMMA HostKeepsGlobals ==
  ASSUME NativeInv, NEW native, NativeHostStack(native)
  PROVE  GlobalsKept /\ nativeMode = "host"
<1>1. nativeMemory \in [Segment -> Seq(Byte)] /\ Stack \notin {BSS, Data}
  BY DEF NativeInv, Memory, Stack, BSS, Data
<1>2. QED
  BY <1>1, GlobalSegments DEF NativeHostStack, Break, ContinueAt, GlobalsKept

TickKeeps ==
  /\ nativeMode # "script" /\ nativeProgram' # NoProgram =>
       \/ GlobalsKept
       \/ /\ nativeMode = "idle" /\ nativeMode' = "idle"
          /\ nativeMemory'[BSS] = Zeroes(nativeProgram'.bssByteSize)
          /\ nativeMemory'[Data] = nativeProgram'.dataData
  /\ nativeMode = "idle" /\ nativeMode' = "script" => nativeMemory'[Stack] = << >>

LEMMA NativeStepKeepsGlobals ==
  ASSUME NativeInv, NativeStep \/ ReplacesNative
  PROVE  TickKeeps
<1>1. CASE NativeExecute
  <2>1. nativeMode = "script"
    BY <1>1
       DEF NativeExecute, NativeDoesPush, NativeDoesArithmetic, NativeDoesConvert,
           NativeDoesAddr, NativeDoesOffset, NativeDoesDereference,
           NativeDoesAssign, NativeDoesCompare, NativeDoesTickTime,
           NativeDoesTimer, NativeDoesJump, NativeDoesJumpIfFalse, NativeDoesCall,
           NativeDoesCallExtern, NativeDoesRet, NativeDoesUnknown, NativeEndOfText,
           NativeFetch
  <2>2. QED
    BY <2>1 DEF TickKeeps
<1>2. CASE \E kind \in HostKinds :
             NativeHostPop(kind) \/ \E value \in HostValues : NativeHostPush(kind, value)
  <2>1. \E native : NativeHostStack(native)
    BY <1>2 DEF NativeHostPop, NativeHostPush
  <2>2. GlobalsKept /\ nativeMode = "host"
    BY <2>1, HostKeepsGlobals
  <2>3. QED
    BY <2>2 DEF TickKeeps
<1>3. CASE NativeReturn \/ NativeRegister(TRUE) \/ UNCHANGED nativeVars
  <2>1. UNCHANGED nativeMemory /\ (UNCHANGED nativeMode \/ nativeMode = "host")
    BY <1>3 DEF NativeReturn, NativeRegister, nativeVars
  <2>2. QED
    BY <2>1 DEF TickKeeps, GlobalsKept
<1>4. CASE \E p \in Programs : NativeLoad(p)
  BY <1>4, LoadSetsGlobals DEF TickKeeps
<1>5. CASE NativeReset \/ \E now \in Times : NativeRun(now)
  <2>1. nativeProgram # NoProgram
    BY <1>5 DEF NativeReset, NativeRun
  <2>2. Break \/ \E modeAfter : NativeRestart(modeAfter)
    BY <1>5 DEF NativeReset, NativeRun
  <2>3. CASE Break
    BY <2>3 DEF Break, TickKeeps, GlobalsKept
  <2>4. CASE \E modeAfter : NativeRestart(modeAfter)
    BY <2>1, <2>4, RestartKeepsGlobals DEF TickKeeps
  <2>5. QED
    BY <2>2, <2>3, <2>4
<1>6. CASE ReplacesNative
  BY <1>6 DEF ReplacesNative, TickKeeps
<1>7. QED
  BY <1>1, <1>2, <1>3, <1>4, <1>5, <1>6 DEF NativeStep

(* A script's globals outlive its ticks: whatever the host does between    *)
(* and inside them, they change by the script's own instructions, or are   *)
(* initial again by a load; and every tick starts with an empty stack.     *)
THEOREM GlobalsOutliveTicks == BothSpec => TicksKeepGlobals
<1>1. NativeInv /\ [BothNext]_<< vars, nativeVars, apartVars >>
        => [TickKeeps]_nativeVars
  BY StepOfNative, NativeStepKeepsGlobals
<1>2. [TickKeeps]_nativeVars =>
        [ /\ nativeMode # "script" /\ nativeProgram' # NoProgram =>
               \/ \A segment \in {BSS, Data} :
                    nativeMemory'[segment] = nativeMemory[segment]
               \/ /\ nativeMode = "idle" /\ nativeMode' = "idle"
                  /\ nativeMemory'[BSS] = Zeroes(nativeProgram'.bssByteSize)
                  /\ nativeMemory'[Data] = nativeProgram'.dataData
          /\ nativeMode = "idle" /\ nativeMode' = "script" =>
               nativeMemory'[Stack] = << >> ]_nativeVars
  BY DEF TickKeeps, GlobalsKept
<1>3. QED
  BY <1>1, <1>2, NativeTyped, PTL DEF BothSpec, TicksKeepGlobals

-----------------------------------------------------------------------------
(* The two runtimes side by side.  The inductive invariant says, first,    *)
(* what holds whether or not they still agree: the native VM is bound to   *)
(* the program that Go has loaded and to its constants, and no segment has *)
(* bytes but those that a program lays out.                                *)
Unlaid == {Extern, 7, 8}

UnlaidEmpty ==
  \A segment \in Unlaid :
    memory[segment] = << >> /\ nativeMemory[segment] = << >>

Bound ==
  /\ nativeDispatcher = hasDispatcher
  /\ nativeProgram # NoProgram =>
       nativeProgram = program /\ nativeMemory[Const] = nativeProgram.constData
  /\ nativeProgram = NoProgram =>
       nativeMode = "idle" /\ nativeTime.ticks = 0 /\ nativeTimers = NoTimers
  /\ mode # "idle" => running = program
  /\ UnlaidEmpty

(* The clocks show the same time from the first common tick on, and have   *)
(* the same tick time unless one of them starts anew.                      *)
ClocksMatch ==
  "time" \notin apart =>
    /\ nativeTime.ticks # 0 \/ nativeMode \in {"script", "host"} =>
         nativeTime.current = currentTime
    /\ nativeMode \in {"script", "host"} /\ ~ oneFirst =>
         nativeTime.tickTime = tickTime

(* A timer with a native duration is one that Go has, with that deadline.  *)
DeadlinesMatch ==
  \A id \in TimerId : nativeTimers[id].durationMS # 0 =>
    /\ nativeTimers[id].endTimeMS > 0
    /\ timers[id] = [durationMS |-> nativeTimers[id].durationMS,
                     endTimeMS |-> nativeTimers[id].endTimeMS,
                     active |-> TRUE]

TimersMatch == apart = {} => DeadlinesMatch

(* Agreement itself, in the parts of RuntimesAgree. *)
SameState ==
  /\ nativePC = pc
  /\ nativeMemory = memory
  /\ nativeFrames = callFrames
  /\ nativeFrameTop = frameTop

SameEnd ==
  /\ nativeMode = "broken" <=> mode = "idle" /\ result # "OK"
  /\ nativeMode # "broken" => nativeMode = mode
  /\ nativeMode \in {"script", "host"} => SameState

RelationInv == Bound /\ ClocksMatch /\ TimersMatch /\ RuntimesAgree

LEMMA AgreeMeans ==
  RuntimesAgree <=>
    (nativeProgram # NoProgram /\ apart = {} => nativeProgram = program /\ SameEnd)
BY DEF RuntimesAgree, SameEnd, SameState

-----------------------------------------------------------------------------
(* What an instruction leaves alone. *)

GoKeeps ==
  /\ mode = "script"
  /\ UNCHANGED << program, hasDispatcher, currentTime, tickTime >>
  /\ mode' # "idle" => running' = running
  /\ \A segment \in Unlaid : memory[segment] = << >> => memory'[segment] = << >>

NativeKeeps ==
  /\ nativeMode = "script"
  /\ UNCHANGED << nativeBinding, nativeTime >>
  /\ nativeMemory'[Const] = nativeMemory[Const]
  /\ \A segment \in Unlaid :
       nativeMemory[segment] = << >> => nativeMemory'[segment] = << >>

LEMMA UnlaidSegments ==
  /\ Unlaid \subseteq Segment \ {Stack, Frame, Const}
  /\ Const \in Segment /\ Const # Stack /\ Const # Frame
BY DEF Unlaid, Segment, Stack, Frame, Const, Extern

LEMMA OthersKeepUnlaid ==
  ASSUME NEW m \in Memory, NEW frame, NEW stack, NEW after,
         \/ after = m
         \/ after = [m EXCEPT ![Stack] = stack]
         \/ after = [m EXCEPT ![Frame] = frame, ![Stack] = stack]
  PROVE  \A segment \in Unlaid \cup {Const} : after[segment] = m[segment]
<1>1. m \in [Segment -> Seq(Byte)]
  BY DEF Memory
<1>2. QED
  BY <1>1, UnlaidSegments

LEMMA GoKeepsFrom ==
  ASSUME TypeInv, NEW op, Fetch(op), NEW frame, NEW stack,
         UNCHANGED << currentTime, tickTime >>,
         mode' # "idle" => running' = running,
         \/ memory' = memory
         \/ memory' = [memory EXCEPT ![Stack] = stack]
         \/ memory' = [memory EXCEPT ![Frame] = frame, ![Stack] = stack]
  PROVE  GoKeeps
<1>1. mode = "script" /\ UNCHANGED << program, hasDispatcher >>
  BY DEF Fetch
<1>2. memory \in Memory
  BY DEF TypeInv
<1>3. \A segment \in Unlaid \cup {Const} : memory'[segment] = memory[segment]
  BY <1>2, OthersKeepUnlaid
<1>4. QED
  BY <1>1, <1>3 DEF GoKeeps

LEMMA OperateKeeps ==
  ASSUME TypeInv, NEW op, Fetch(op), NEW outcome, Operate(outcome),
         UNCHANGED << currentTime, tickTime >>
  PROVE  GoKeeps
<1>1. mode' # "idle" => running' = running
  BY DEF Operate, Conclude, GoOn, Abort, Leave
<1>2. memory' = [memory EXCEPT ![Stack] = outcome.stack]
  BY DEF Operate
<1>3. QED
  BY <1>1, <1>2, GoKeepsFrom

LEMMA JumpToKeeps ==
  ASSUME TypeInv, NEW op, Fetch(op), NEW target, NEW stack, JumpTo(target, stack),
         UNCHANGED << currentTime, tickTime >>
  PROVE  GoKeeps
<1>1. mode' # "idle" => running' = running
  BY DEF JumpTo, GoOn, Abort, Leave
<1>2. memory' = [memory EXCEPT ![Stack] = stack]
  BY DEF JumpTo
<1>3. QED
  BY <1>1, <1>2, GoKeepsFrom

(* An assignment that succeeds writes a segment that has bytes. *)
LEMMA AssignKeeps ==
  ASSUME TypeInv, Assign
  PROVE  GoKeeps
<1> DEFINE s == OperandStack
           kind == Instr.kind
           n == KindSize(kind)
           address == Operand(s, 4, 1)
           segment == AddressSegment(address)
           outcome == AssignResult(s, kind)
<1>1. Fetch("Assign") /\ UNCHANGED << currentTime, tickTime >>
  BY DEF Assign, timeVars
<1>2. s \in StackBytes /\ kind \in Kind /\ memory \in Memory
  BY <1>1, FetchedInstruction DEF Instruction, TypeInv
<1>3. mode' # "idle" => running' = running
  BY DEF Assign, Conclude, GoOn, Abort, Leave
<1>4. CASE outcome.status # "OK"
  <2>1. memory' = [memory EXCEPT ![Stack] = outcome.stack]
    BY <1>4 DEF Assign
  <2>2. QED
    BY <1>1, <1>3, <2>1, GoKeepsFrom
<1>5. CASE outcome.status = "OK"
  <2>1. memory' = Assigned(s, kind, outcome.stack)
    BY <1>5 DEF Assign
  <2>2. /\ segment # Const /\ segment \in Segment /\ n # 0 /\ ~ (Len(s) < 4)
        /\ segment # Stack => InSegment(memory[segment], AddressIndex(address), n)
    BY <1>5 DEF AssignResult, Sets, Records, Underflow, Writable
  <2>3. CASE segment = Stack
    <3>1. memory' = [memory EXCEPT ![Stack] = outcome.stack]
      BY <1>2, <2>1, <2>3 DEF Assigned, Memory
    <3>2. QED
      BY <1>1, <1>3, <3>1, GoKeepsFrom
  <2>4. CASE segment # Stack
    <3>1. PICK written : memory' = [memory EXCEPT ![Stack] = outcome.stack,
                                                  ![segment] = written]
      BY <1>2, <2>1, <2>4 DEF Assigned, Memory, Segment, Stack
    <3>2. segment \notin Unlaid \/ memory[segment] # << >>
      <4>1. Len(s) \in Nat /\ Len(s) >= 4
        BY <1>2, <2>2 DEF StackBytes
      <4>2. AddressIndex(address) \in Nat
        BY <1>2, <4>1, PopAddress
      <4>3. n \in Nat /\ n > 0
        BY <1>2, <2>2, KindSizes
      <4>4. Len(<< >>) = 0 /\ ~ (AddressIndex(address) + n <= 0)
        BY <4>2, <4>3
      <4>5. QED
        BY <2>2, <2>4, <4>4 DEF InSegment
    <3> HIDE DEF segment
    <3>3. memory \in [Segment -> Seq(Byte)]
      BY <1>2 DEF Memory
    <3>4. \A other \in Unlaid : memory[other] = << >> => memory'[other] = << >>
      BY <3>1, <3>2, <3>3, UnlaidSegments
    <3>5. QED
      BY <1>1, <1>3, <3>4 DEF GoKeeps, Fetch
  <2>5. QED
    BY <2>3, <2>4
<1>6. QED
  BY <1>4, <1>5

LEMMA ExecuteKeeps ==
  ASSUME TypeInv, Execute
  PROVE  GoKeeps
<1>1. CASE Push \/ Arithmetic \/ Convert \/ Addr \/ Offset \/ Dereference
             \/ Compare \/ BuiltIn
  BY <1>1, OperateKeeps
     DEF Push, Arithmetic, Convert, Addr, Offset, Dereference, Compare, BuiltIn,
         timeVars
<1>2. CASE Timer
  BY <1>2, OperateKeeps
     DEF Timer, TimerEffect, TimerStart, TimerStop, TimerReset, clockVars, timeVars
<1>3. CASE Jump \/ JumpIfFalse
  BY <1>3, OperateKeeps, JumpToKeeps DEF Jump, JumpIfFalse, timeVars
<1>4. CASE Assign
  BY <1>4, AssignKeeps
<1>5. CASE Call
  <2>1. Fetch("Call") /\ UNCHANGED << currentTime, tickTime >>
    BY <1>5 DEF Call, timeVars
  <2>2. mode' # "idle" => running' = running
    BY <1>5 DEF Call, GoOn, Abort, Leave
  <2>3. \/ memory' = memory
        \/ \E frame, stack : memory' = [memory EXCEPT ![Frame] = frame,
                                                      ![Stack] = stack]
    BY <1>5 DEF Call, Entered
  <2>4. QED
    BY <2>1, <2>2, <2>3, GoKeepsFrom
<1>6. CASE CallExtern \/ Ret \/ Unknown \/ Truncated
  <2>1. \E op : Fetch(op)
    BY <1>6 DEF CallExtern, Ret, Unknown, Truncated
  <2>2. UNCHANGED << memory, currentTime, tickTime >>
    BY <1>6 DEF CallExtern, Ret, Unknown, Truncated, timeVars
  <2>3. mode' # "idle" => running' = running
    BY <1>6 DEF CallExtern, Ret, Unknown, Truncated, GoOn, Abort, Leave
  <2>4. QED
    BY <2>1, <2>2, <2>3, GoKeepsFrom
<1>7. CASE EndOfText
  BY <1>7 DEF EndOfText, Leave, GoKeeps, timeVars
<1>8. QED
  BY <1>1, <1>2, <1>3, <1>4, <1>5, <1>6, <1>7 DEF Execute

LEMMA NativeKeepsFrom ==
  ASSUME NativeInv, NEW op, NativeFetch(op), NEW frame, NEW stack,
         UNCHANGED nativeTime,
         \/ nativeMemory' = nativeMemory
         \/ nativeMemory' = [nativeMemory EXCEPT ![Stack] = stack]
         \/ nativeMemory' = [nativeMemory EXCEPT ![Frame] = frame, ![Stack] = stack]
  PROVE  NativeKeeps
<1>1. nativeMode = "script" /\ UNCHANGED nativeBinding
  BY NativeFetched
<1>2. nativeMemory \in Memory
  BY DEF NativeInv
<1>3. \A segment \in Unlaid \cup {Const} :
        nativeMemory'[segment] = nativeMemory[segment]
  BY <1>2, OthersKeepUnlaid
<1>4. QED
  BY <1>1, <1>3 DEF NativeKeeps

LEMMA NativeOperateKeeps ==
  ASSUME NativeInv, NEW op, NativeFetch(op), NEW native, NativeOperate(native)
  PROVE  NativeKeeps
<1>1. UNCHANGED nativeTime
  BY DEF NativeOperate, Break, nativeTimeVars
<1>2. \/ nativeMemory' = nativeMemory
      \/ nativeMemory' = [nativeMemory EXCEPT ![Stack] = native.stack]
  BY DEF NativeOperate, Break, ContinueAt
<1>3. QED
  BY <1>1, <1>2, NativeKeepsFrom

LEMMA NativeAssignKeeps ==
  ASSUME NativeInv, NativeDoesAssign
  PROVE  NativeKeeps
<1> DEFINE s == NativeStack
           kind == NativeInstr.kind
           n == KindSize(kind)
           address == Operand(s, 4, 1)
           segment == AddressSegment(address)
           native == NativeAssign(s, kind)
           popped == Truncate(s, 4 + n)
<1>1. NativeFetch("Assign") /\ UNCHANGED nativeTime
  BY DEF NativeDoesAssign, Break, nativeTimeVars
<1>2. s \in StackBytes /\ kind \in Kind /\ nativeMemory \in Memory
  BY <1>1, NativeFetched, InstructionFields DEF NativeInv
<1>3. CASE ~ native.defined
  <2>1. nativeMemory' = nativeMemory
    BY <1>3 DEF NativeDoesAssign, Break
  <2>2. QED
    BY <1>1, <2>1, NativeKeepsFrom
<1>4. CASE native.defined
  <2>1. nativeMemory' = NativeAssigned(s, kind)
    BY <1>4 DEF NativeDoesAssign, ContinueAt
  <2>2. /\ segment \in NativeSegment \ {Const} /\ n > 0 /\ Len(s) >= 4 + n
        /\ segment # Stack => InSegment(nativeMemory[segment], AddressIndex(address), n)
    BY <1>4 DEF NativeAssign, When, Undefined
  <2>3. nativeMemory \in [Segment -> Seq(Byte)]
    BY <1>2 DEF Memory
  <2>4. segment \in Segment /\ segment # Const
    BY <2>2 DEF NativeSegment, Segment, Frame, Stack
  <2>5. segment \notin Unlaid \/ nativeMemory[segment] # << >>
    <3>1. Len(s) \in Nat /\ n \in Nat /\ n > 0
      BY <1>2, <2>2, KindSizes DEF StackBytes
    <3>2. ~ (Len(s) < 4)
      BY <2>2, <3>1
    <3>3. AddressIndex(address) \in Nat
      BY <1>2, <3>2, PopAddress
    <3>4. Len(<< >>) = 0 /\ ~ (AddressIndex(address) + n <= 0)
      BY <3>1, <3>3
    <3>5. segment \in Unlaid => segment # Stack
      BY UnlaidSegments
    <3>6. QED
      BY <2>2, <3>4, <3>5 DEF InSegment
  <2>6. \E written : nativeMemory' = [[nativeMemory EXCEPT ![Stack] = popped]
                                         EXCEPT ![segment] = written]
    BY <2>1 DEF NativeAssigned
  <2> HIDE DEF segment, popped
  <2>7. /\ \A other \in Unlaid : nativeMemory[other] = << >> => nativeMemory'[other] = << >>
        /\ nativeMemory'[Const] = nativeMemory[Const]
    BY <2>3, <2>4, <2>5, <2>6, UnlaidSegments
  <2>8. QED
    BY <1>1, <2>7, NativeFetched DEF NativeKeeps
<1>5. QED
  BY <1>3, <1>4

LEMMA NativeExecuteKeeps ==
  ASSUME NativeInv, NativeExecute
  PROVE  NativeKeeps
<1>1. CASE NativeDoesPush \/ NativeDoesArithmetic \/ NativeDoesConvert
             \/ NativeDoesAddr \/ NativeDoesOffset \/ NativeDoesDereference
             \/ NativeDoesCompare \/ NativeDoesTickTime
  BY <1>1, NativeOperateKeeps
     DEF NativeDoesPush, NativeDoesArithmetic, NativeDoesConvert,
         NativeDoesAddr, NativeDoesOffset, NativeDoesDereference,
         NativeDoesCompare, NativeDoesTickTime
<1>2. CASE NativeDoesAssign
  BY <1>2, NativeAssignKeeps
<1>3. CASE NativeDoesTimer
  <2>1. NativeFetch("BuiltIn") /\ UNCHANGED nativeTime
    BY <1>3 DEF NativeDoesTimer, Break, nativeTimeVars
  <2>2. \/ nativeMemory' = nativeMemory
        \/ \E stack : nativeMemory' = [nativeMemory EXCEPT ![Stack] = stack]
    BY <1>3 DEF NativeDoesTimer, Break, ContinueAt
  <2>3. QED
    BY <2>1, <2>2, NativeKeepsFrom
<1>4. CASE NativeDoesJump \/ NativeDoesJumpIfFalse
  <2>1. PICK op : NativeFetch(op)
    BY <1>4 DEF NativeDoesJump, NativeDoesJumpIfFalse
  <2>2. UNCHANGED nativeTime
    BY <1>4 DEF NativeDoesJump, NativeDoesJumpIfFalse, NativeJumpTo, Break,
                nativeTimeVars
  <2>3. \/ nativeMemory' = nativeMemory
        \/ \E stack : nativeMemory' = [nativeMemory EXCEPT ![Stack] = stack]
    BY <1>4 DEF NativeDoesJump, NativeDoesJumpIfFalse, NativeJumpTo, Break,
                ContinueAt
  <2>4. QED
    BY <2>1, <2>2, <2>3, NativeKeepsFrom
<1>5. CASE NativeDoesCall
  <2>1. NativeFetch("Call") /\ UNCHANGED nativeTime
    BY <1>5 DEF NativeDoesCall, Break, nativeTimeVars
  <2>2. \/ nativeMemory' = nativeMemory
        \/ \E frame, stack : nativeMemory' = [nativeMemory EXCEPT ![Frame] = frame,
                                                                  ![Stack] = stack]
    BY <1>5 DEF NativeDoesCall, Break, NativeEnter, Entered
  <2>3. QED
    BY <2>1, <2>2, NativeKeepsFrom
<1>6. CASE NativeDoesCallExtern \/ NativeDoesRet \/ NativeDoesUnknown
  <2>1. PICK op : NativeFetch(op)
    BY <1>6 DEF NativeDoesCallExtern, NativeDoesRet, NativeDoesUnknown
  <2>2. UNCHANGED << nativeMemory, nativeTime >>
    BY <1>6 DEF NativeDoesCallExtern, NativeDoesRet, NativeDoesUnknown, Break,
                nativeTimeVars
  <2>3. QED
    BY <2>1, <2>2, NativeKeepsFrom
<1>7. CASE NativeEndOfText
  BY <1>7 DEF NativeEndOfText, NativeKeeps, nativeTimeVars
<1>8. QED
  BY <1>1, <1>2, <1>3, <1>4, <1>5, <1>6, <1>7 DEF NativeExecute

-----------------------------------------------------------------------------
(* Clock and timers, as long as both VMs have the same time and deadlines. *)

LEMMA TickTimeMirrors ==
  ASSUME NEW s \in StackBytes, NEW kind, nativeTime.tickTime = tickTime,
         NEW outcome \in BuiltInOutcomes(s, kind, "TickTime")
  PROVE  Mirrors(NativeTickTime(s, kind), outcome)
<1>1. outcome = IF kind = "Int32" THEN Pushed(s, Encode(4, tickTime))
                ELSE Records("InvalidValueKind", s)
  <2>1. \A op : op = "TickTime" =>
          BuiltInOutcomes(s, kind, op)
            = { IF kind = "Int32" THEN Pushed(s, Encode(4, tickTime))
                ELSE Records("InvalidValueKind", s) }
    BY DEF BuiltInOutcomes, MathBuiltIn
  <2>2. QED
    BY <2>1
<1>2. CASE kind = "Int32"
  <2>1. KindSize(kind) = 4 /\ kind \in Kind
    <3>1. \A k : k \in {"Int32", "Address"} => KindSize(k) = 4
      BY DEF KindSize
    <3>2. QED
      BY <1>2, <3>1 DEF Kind
  <2>2. NativeTickTime(s, kind) = NativePushed(s, kind, tickTime)
    BY <1>2 DEF NativeTickTime, When
  <2>3. Mirrors(NativePushed(s, kind, tickTime), Pushed(s, Encode(4, tickTime)))
    BY <2>1, MirrorsPushed
  <2>4. QED
    BY <1>1, <1>2, <2>2, <2>3
<1>3. CASE kind # "Int32"
  <2>1. NativeTickTime(s, kind) = Undefined /\ outcome = Records("InvalidValueKind", s)
    BY <1>1, <1>3 DEF NativeTickTime, When
  <2>2. QED
    BY <2>1, MirrorsFailure
<1>4. QED
  BY <1>2, <1>3

LEMMA TimerMirrors ==
  ASSUME NEW s \in StackBytes, NEW kind \in Kind, NEW op \in TimerBuiltIn,
         op = "TimerDone" /\ s # << >> /\ Operand(s, 1, 1) \in TimerId =>
           (NativeTimerDone(Operand(s, 1, 1)) <=> TimerDone(Operand(s, 1, 1)))
  PROVE  Mirrors(NativeTimer(s, kind, op), TimerResult(s, kind, op))
<1> DEFINE below == SlotStack(s, op)
           rest == Truncate(below, 1)
           id == Operand(below, 1, 1)
           native == NativeTimer(s, kind, op)
           outcome == TimerResult(s, kind, op)
<1>1. Len(s) \in Nat
  BY DEF StackBytes
<1>2. CASE kind # TimerKind(op)
  <2>1. native = Undefined /\ outcome = Records("InvalidValueKind", s)
    BY <1>2 DEF NativeTimer, When, TimerResult
  <2>2. QED
    BY <2>1, MirrorsFailure
<1>3. CASE kind = TimerKind(op) /\ op = "TimerStart" /\ Len(s) < 4
  <2>1. native = Undefined /\ outcome = Underflow(s, 4)
    BY <1>1, <1>3 DEF NativeTimer, When, TimerResult
  <2>2. QED
    BY <2>1, MirrorsUnderflow
<1>4. CASE kind = TimerKind(op) /\ ~ (op = "TimerStart" /\ Len(s) < 4)
  <2>1. op = "TimerStart" => Len(s) >= 4
    BY <1>1, <1>4
  <2>2. below \in StackBytes /\ Len(below) \in Nat
    <3>1. op = "TimerStart" => 4 \in 0 .. Len(s)
      BY <1>1, <2>1
    <3>2. op = "TimerStart" => Truncate(s, 4) \in StackBytes
      BY <3>1, TruncateStack
    <3>3. below \in StackBytes
      BY <3>2 DEF SlotStack
    <3>4. QED
      BY <3>3 DEF StackBytes
  <2>3. CASE Len(below) < 1
    <3>1. ~ (Len(below) >= 1)
      BY <2>2, <2>3
    <3>2. native = Undefined
      BY <3>1 DEF NativeTimer, When
    <3>3. outcome = Underflow(below, 1)
      BY <1>4, <2>3 DEF TimerResult
    <3>4. QED
      BY <3>2, <3>3, MirrorsUnderflow
  <2>4. CASE ~ (Len(below) < 1) /\ id \notin TimerId
    <3>1. native = Undefined
      BY <2>4 DEF NativeTimer, When
    <3>2. outcome = Records("InvalidParameter", rest)
      BY <1>4, <2>4 DEF TimerResult
    <3>3. QED
      BY <3>1, <3>2, MirrorsFailure
  <2>5. CASE ~ (Len(below) < 1) /\ id \in TimerId
    <3>1. Len(below) >= 1
      BY <2>2, <2>5
    <3>2. rest \in StackBytes
      BY <2>1, <3>1, TimerOperands
    <3>3. CASE op # "TimerDone"
      <4>1. native = Defined(rest)
        BY <1>4, <2>1, <2>5, <3>1, <3>3 DEF NativeTimer, When
      <4>2. outcome = Done(rest)
        BY <1>4, <2>5, <3>3 DEF TimerResult
      <4>3. QED
        BY <4>1, <4>2, MirrorsDone
    <3>4. CASE op = "TimerDone"
      <4> DEFINE answer == IF TimerDone(id) THEN 1 ELSE 0
      <4>1. below = s /\ s # << >>
        BY <2>2, <3>1, <3>4 DEF SlotStack
      <4>2. NativeTimerDone(id) <=> TimerDone(id)
        BY <2>5, <3>4, <4>1
      <4>3. native = NativePushed(rest, "Bool", answer)
        BY <1>4, <2>5, <3>1, <3>4, <4>2 DEF NativeTimer, When
      <4>4. outcome = Pushed(rest, << answer >>)
        BY <1>4, <2>5, <3>4 DEF TimerResult
      <4>5. Encode(1, answer) = << answer >> /\ KindSize("Bool") = 1 /\ "Bool" \in Kind
        <5>1. answer = IF TimerDone(id) = TRUE THEN 1 ELSE 0
          OBVIOUS
        <5>2. (TimerDone(id) = TRUE) \in BOOLEAN
          OBVIOUS
        <5>3. QED
          BY <5>1, <5>2, EncodedAnswer DEF Kind
      <4> HIDE DEF answer
      <4>6. Mirrors(NativePushed(rest, "Bool", answer), Pushed(rest, Encode(1, answer)))
        BY <3>2, <4>5, MirrorsPushed
      <4>7. QED
        BY <4>3, <4>4, <4>5, <4>6
    <3>5. QED
      BY <3>3, <3>4
  <2>6. QED
    BY <2>3, <2>4, <2>5
<1>5. QED
  BY <1>2, <1>3, <1>4

(* A timer that Go and the native VM both know is done at the same time.   *)
LEMMA DoneMatches ==
  ASSUME DeadlinesMatch, nativeTime.current = currentTime, NEW id \in TimerId,
         nativeTimers[id].durationMS # 0
  PROVE  NativeTimerDone(id) <=> TimerDone(id)
<1>1. /\ nativeTimers[id].endTimeMS > 0
      /\ timers[id] = [durationMS |-> nativeTimers[id].durationMS,
                       endTimeMS |-> nativeTimers[id].endTimeMS,
                       active |-> TRUE]
  BY DEF DeadlinesMatch
<1>2. timers[id].endTimeMS = nativeTimers[id].endTimeMS /\ timers[id].active
  BY <1>1
<1>3. QED
  BY <1>1, <1>2 DEF NativeTimerDone, TimerDone

(* What a timer instruction does to the deadlines.                         *)
LEMMA EffectsMatch ==
  ASSUME TimeTypeOK, NativeTimeType, DeadlinesMatch,
         nativeTime.current = currentTime,
         NEW op \in TimerBuiltIn, NEW id \in TimerId, NEW duration,
         op = "TimerStart" => duration \in 0 .. MaxTime,
         nativeTimers' = [nativeTimers EXCEPT ![id] = TimerAfter(op, id, duration)],
         \/ op = "TimerStart" /\ TimerStart(id, duration)
         \/ op = "TimerStop" /\ TimerStop(id)
         \/ op = "TimerReset" /\ TimerReset(id)
         \/ op = "TimerDone" /\ UNCHANGED timeVars
  PROVE  DeadlinesMatch'
<1>1. /\ nativeTimers \in [TimerId -> [endTimeMS : 0 .. MaxTime,
                                      durationMS : 0 .. MaxTime]]
      /\ timers \in [TimerId -> TimerSlot] /\ MaxTime \in Nat
      /\ currentTime \in 0 .. MaxTime
  BY TimeAssumption DEF TimeTypeOK, NativeTimeType
<1>2. \A other \in TimerId : other # id =>
        timers'[other] = timers[other] /\ nativeTimers'[other] = nativeTimers[other]
  BY <1>1 DEF TimerStart, TimerStop, TimerReset, timeVars
<1>3. nativeTimers'[id] = TimerAfter(op, id, duration)
  BY <1>1
<1>4. SUFFICES ASSUME nativeTimers'[id].durationMS # 0
               PROVE  /\ nativeTimers'[id].endTimeMS > 0
                      /\ timers'[id] = [durationMS |-> nativeTimers'[id].durationMS,
                                        endTimeMS |-> nativeTimers'[id].endTimeMS,
                                        active |-> TRUE]
  BY <1>2 DEF DeadlinesMatch
<1>5. ASSUME NEW d \in 0 .. MaxTime, d # 0
      PROVE  EndTime(d) = SaturatingAdd(currentTime, d) /\ EndTime(d) > 0
  <2>1. EndTime(d) = SaturatingAdd(currentTime, d)
    BY <1>5 DEF EndTime, NativeSaturatingAdd, SaturatingAdd
  <2>2. SaturatingAdd(currentTime, d) > 0
    BY <1>1, <1>5 DEF SaturatingAdd
  <2>3. QED
    BY <2>1, <2>2
<1>6. CASE op = "TimerStart"
  <2>1. nativeTimers'[id] = [durationMS |-> duration, endTimeMS |-> EndTime(duration)]
    BY <1>3, <1>6 DEF TimerAfter
  <2>2. timers'[id] = [durationMS |-> duration,
                       endTimeMS |-> SaturatingAdd(currentTime, duration),
                       active |-> TRUE]
    BY <1>1, <1>6 DEF TimerStart
  <2>3. duration \in 0 .. MaxTime /\ duration # 0
    BY <1>4, <1>6, <2>1
  <2>4. EndTime(duration) = SaturatingAdd(currentTime, duration) /\ EndTime(duration) > 0
    BY <1>5, <2>3
  <2>5. nativeTimers'[id].durationMS = duration
          /\ nativeTimers'[id].endTimeMS = EndTime(duration)
    BY <2>1
  <2>6. QED
    BY <2>2, <2>4, <2>5
<1>7. CASE op = "TimerStop"
  <2>1. nativeTimers'[id] = [durationMS |-> 0, endTimeMS |-> 0]
    BY <1>3, <1>7 DEF TimerAfter
  <2>2. QED
    BY <1>4, <2>1
<1>8. CASE op = "TimerReset"
  <2> DEFINE d == nativeTimers[id].durationMS
  <2>1. nativeTimers'[id] = [nativeTimers[id] EXCEPT !.endTimeMS = EndTime(d)]
    BY <1>3, <1>8 DEF TimerAfter
  <2>2. d \in 0 .. MaxTime /\ nativeTimers[id] \in [endTimeMS : 0 .. MaxTime,
                                                    durationMS : 0 .. MaxTime]
    BY <1>1
  <2>3. /\ nativeTimers'[id].durationMS = d
        /\ nativeTimers'[id].endTimeMS = EndTime(d)
    BY <2>1, <2>2
  <2>4. d # 0
    BY <1>4, <2>3
  <2>5. timers[id] = [durationMS |-> d, endTimeMS |-> nativeTimers[id].endTimeMS,
                      active |-> TRUE]
    BY <2>4 DEF DeadlinesMatch
  <2>6. timers' = [timers EXCEPT ![id].endTimeMS =
                                    SaturatingAdd(currentTime, timers[id].durationMS),
                                 ![id].active = TRUE]
    BY <1>8 DEF TimerReset
  <2> HIDE DEF d
  <2>7. EndTime(d) = SaturatingAdd(currentTime, d) /\ EndTime(d) > 0
    BY <1>5, <2>2, <2>4
  <2>8. timers'[id] = [durationMS |-> d, endTimeMS |-> SaturatingAdd(currentTime, d),
                       active |-> TRUE]
    <3> DEFINE end == SaturatingAdd(currentTime, d)
               slot == timers[id]
               one == [timers EXCEPT ![id].endTimeMS = end]
    <3>1. slot.durationMS = d
      BY <2>5
    <3>2. timers' = [one EXCEPT ![id].active = TRUE]
      BY <2>6, <3>1
    <3> HIDE DEF end
    <3>3. one[id] = [slot EXCEPT !.endTimeMS = end] /\ DOMAIN one = TimerId
      BY <1>1
    <3> HIDE DEF one
    <3>4. timers'[id] = [one[id] EXCEPT !.active = TRUE]
      BY <3>2, <3>3
    <3> DEFINE started == [durationMS |-> d, endTimeMS |-> end, active |-> TRUE]
    <3>5. /\ slot \in TimerSlot /\ slot.durationMS = d
          /\ end \in 0 .. MaxTime /\ d \in 0 .. MaxTime
      <4>1. slot \in TimerSlot
        BY <1>1
      <4>2. slot.durationMS = d
        BY <2>5
      <4>3. end \in 0 .. MaxTime
        BY <1>1, <2>2, SaturatingAddRange DEF end
      <4>4. QED
        BY <2>2, <4>1, <4>2, <4>3
    <3> HIDE DEF slot
    <3>6. /\ one[id] \in TimerSlot /\ one[id].durationMS = d
          /\ one[id].endTimeMS = end
      BY <3>3, <3>5 DEF TimerSlot
    <3>7. /\ timers'[id] \in TimerSlot /\ timers'[id].durationMS = d
          /\ timers'[id].endTimeMS = end /\ timers'[id].active = TRUE
      BY <3>4, <3>6 DEF TimerSlot
    <3>8. /\ started \in TimerSlot /\ started.durationMS = d
          /\ started.endTimeMS = end /\ started.active = TRUE
      BY <3>5 DEF TimerSlot
    <3> HIDE DEF started
    <3>9. timers'[id] = started
      BY <3>7, <3>8 DEF TimerSlot
    <3>10. QED
      BY <3>9 DEF end, started
  <2>9. QED
    BY <2>3, <2>7, <2>8
<1>9. CASE op = "TimerDone"
  <2>1. nativeTimers'[id] = nativeTimers[id] /\ timers' = timers
    BY <1>3, <1>9 DEF TimerAfter, timeVars
  <2>2. QED
    BY <1>4, <2>1 DEF DeadlinesMatch
<1>10. QED
  BY <1>6, <1>7, <1>8, <1>9 DEF TimerBuiltIn

-----------------------------------------------------------------------------
(* Both VMs before the same instruction, in the same state. *)

SideBySide ==
  /\ TypeInv /\ NativeInv
  /\ mode = "script" /\ nativeMode = "script"
  /\ nativeProgram = program /\ running = program
  /\ nativeDispatcher = hasDispatcher
  /\ SameState
  /\ UnlaidEmpty

LEMMA SameInstruction ==
  ASSUME SideBySide
  PROVE  /\ NativeInstr = Instr /\ NativeStack = OperandStack
         /\ OperandStack \in StackBytes /\ memory \in Memory
         /\ nativeMemory = memory /\ nativePC = pc
         /\ pc \in Nat /\ Len(running.text) \in Nat
         /\ nativeProgram.text = running.text
         /\ pc < Len(running.text) => Instr \in Instruction
<1>1. /\ nativeMemory = memory /\ nativePC = pc /\ nativeProgram = running
      /\ nativeProgram.text = running.text
  BY DEF SideBySide, SameState
<1>2. NativeInstr = Instr /\ NativeStack = OperandStack
  BY <1>1 DEF NativeInstr, Instr, NativeStack, OperandStack
<1>3. memory \in Memory /\ running \in Programs /\ pc \in Nat
  BY DEF SideBySide, TypeInv, FlowType
<1>4. OperandStack \in StackBytes
  BY <1>3 DEF OperandStack, Memory, StackBytes, Segment, Stack
<1>5. running.text \in Seq(Instruction)
  BY <1>3, VMAssumption DEF LinkedProgram
<1>6. pc < Len(running.text) => Instr \in Instruction
  BY <1>3, <1>5 DEF Instr
<1>7. Len(running.text) \in Nat
  BY <1>5
<1>8. QED
  BY <1>1, <1>2, <1>3, <1>4, <1>6, <1>7

(* The native VM executes the instruction that Go fetches.                 *)
LEMMA NativeExecutes ==
  ASSUME SideBySide, NativeExecute, NEW op, Fetch(op)
  PROVE  \/ op = "Push" /\ NativeDoesPush
         \/ op = "Arithmetic" /\ NativeDoesArithmetic
         \/ op = "Convert" /\ NativeDoesConvert
         \/ op = "Addr" /\ NativeDoesAddr
         \/ op = "Offset" /\ NativeDoesOffset
         \/ op = "Dereference" /\ NativeDoesDereference
         \/ op = "Assign" /\ NativeDoesAssign
         \/ op = "Compare" /\ NativeDoesCompare
         \/ op = "Jump" /\ NativeDoesJump
         \/ op = "JumpIfFalse" /\ NativeDoesJumpIfFalse
         \/ op = "Call" /\ NativeDoesCall
         \/ op = "CallExtern" /\ NativeDoesCallExtern
         \/ op = "Ret" /\ NativeDoesRet
         \/ op \in {"Unknown", "Truncated"} /\ NativeDoesUnknown
         \/ op = "BuiltIn" /\ Instr.sub = "TickTime" /\ NativeDoesTickTime
         \/ op = "BuiltIn" /\ Instr.sub \in TimerBuiltIn /\ NativeDoesTimer
<1>1. /\ NativeInstr = Instr /\ Instr.op = op /\ pc < Len(running.text)
      /\ pc \in Nat /\ Len(running.text) \in Nat
      /\ nativePC = pc /\ nativeProgram.text = running.text
  BY SameInstruction DEF Fetch
<1>2. ~ NativeEndOfText
  BY <1>1 DEF NativeEndOfText
<1>3. QED
  BY <1>1, <1>2
     DEF NativeExecute, NativeDoesPush, NativeDoesArithmetic, NativeDoesConvert,
         NativeDoesAddr, NativeDoesOffset, NativeDoesDereference, NativeDoesAssign,
         NativeDoesCompare, NativeDoesTickTime, NativeDoesTimer, NativeDoesJump,
         NativeDoesJumpIfFalse, NativeDoesCall, NativeDoesCallExtern, NativeDoesRet,
         NativeDoesUnknown, NativeFetch

(* Both go on, or both end. *)
LEMMA BothFail ==
  ASSUME NEW outcome, outcome.status # "OK", Abort(outcome), Break
  PROVE  SameEnd'
BY DEF Abort, Leave, Break, SameEnd

LEMMA BothGoOn ==
  ASSUME SideBySide, NEW target, GoOn(target), nativePC' = target,
         UNCHANGED nativeMode, nativeMemory' = memory',
         nativeFrames' = callFrames', nativeFrameTop' = frameTop'
  PROVE  SameEnd'
BY DEF SideBySide, GoOn, SameEnd, SameState

LEMMA OperateTogether ==
  ASSUME SideBySide, NEW outcome, NEW native, Mirrors(native, outcome),
         Operate(outcome), NativeOperate(native)
  PROVE  SameEnd'
<1>1. CASE outcome.status # "OK"
  <2>1. ~ native.defined
    BY <1>1 DEF Mirrors
  <2>2. Abort(outcome) /\ Break
    BY <1>1, <2>1 DEF Operate, Conclude, NativeOperate
  <2>3. QED
    BY <1>1, <2>2, BothFail
<1>2. CASE outcome.status = "OK"
  <2>1. native.defined /\ native.stack = outcome.stack
    BY <1>2 DEF Mirrors
  <2>2. /\ GoOn(pc + 1) /\ memory' = [memory EXCEPT ![Stack] = outcome.stack]
        /\ callFrames' = callFrames /\ frameTop' = frameTop
    BY <1>2 DEF Operate, Conclude, callVars
  <2>3. /\ nativePC' = nativePC + 1 /\ UNCHANGED nativeMode
        /\ nativeMemory' = [nativeMemory EXCEPT ![Stack] = outcome.stack]
        /\ nativeFrames' = nativeFrames /\ nativeFrameTop' = nativeFrameTop
    BY <2>1 DEF NativeOperate, ContinueAt, nativeCallVars
  <2>4. SameState
    BY DEF SideBySide
  <2>5. QED
    BY <2>2, <2>3, <2>4, BothGoOn DEF SameState
<1>3. QED
  BY <1>1, <1>2

(* One instruction after the other. *)
LEMMA FetchedTogether ==
  ASSUME SideBySide, NEW op, Fetch(op)
  PROVE  /\ Instr.kind \in Kind /\ Instr.from \in Kind
         /\ Instr.segment \in 0 .. 15 /\ Instr.arg \in Nat
         /\ OperandStack \in StackBytes
         /\ NativeInstr = Instr /\ NativeStack = OperandStack
BY SameInstruction, InstructionFields DEF Fetch

LEMMA ReservedAreEmpty ==
  ASSUME SideBySide
  PROVE  ReservedEmpty
BY DEF SideBySide, UnlaidEmpty, Unlaid, ReservedEmpty

LEMMA StackTogether ==
  ASSUME SideBySide, NativeExecute, ~ NamesNoSegment,
         \/ Push \/ Arithmetic \/ Convert \/ Addr \/ Offset \/ Dereference
         \/ Compare
  PROVE  SameEnd'
<1>1. /\ memory \in Memory /\ nativeMemory = memory
      /\ callFrames = nativeFrames /\ callFrames \in Seq(FrameType)
      /\ ReservedEmpty
  BY ReservedAreEmpty DEF SideBySide, SameState, TypeInv, CallsType
<1>2. CASE Push
  <2>1. Fetch("Push") /\ NativeDoesPush
    BY <1>2, NativeExecutes DEF Push
  <2>2. Mirrors(NativePush(OperandStack, Instr.kind, Instr.arg),
                PushResult(OperandStack, Instr.kind, Instr.arg))
    BY <2>1, FetchedTogether, PushMirrors
  <2>3. QED
    BY <1>2, <2>1, <2>2, FetchedTogether, OperateTogether DEF Push, NativeDoesPush
<1>3. CASE Arithmetic
  <2>1. Fetch("Arithmetic") /\ NativeDoesArithmetic
    BY <1>3, NativeExecutes DEF Arithmetic
  <2>2. Mirrors(NativeArithmetic(OperandStack, Instr.kind, Instr.sub),
                ArithmeticResult(OperandStack, Instr.kind, Instr.sub))
    BY <2>1, FetchedTogether, ArithmeticMirrors
  <2>3. QED
    BY <1>3, <2>1, <2>2, FetchedTogether, OperateTogether
       DEF Arithmetic, NativeDoesArithmetic
<1>4. CASE Convert
  <2>1. Fetch("Convert") /\ NativeDoesConvert
    BY <1>4, NativeExecutes DEF Convert
  <2>2. Mirrors(NativeConversion(OperandStack, Instr.from, Instr.kind),
                ConvertResult(OperandStack, Instr.from, Instr.kind))
    BY <2>1, FetchedTogether, ConvertMirrors
  <2>3. QED
    BY <1>4, <2>1, <2>2, FetchedTogether, OperateTogether
       DEF Convert, NativeDoesConvert
<1>5. CASE Addr
  <2>1. Fetch("Addr") /\ NativeDoesAddr
    BY <1>5, NativeExecutes DEF Addr
  <2>2. Instr.segment \in NativeSegment
    BY <2>1 DEF NamesNoSegment, Fetch
  <2>3. Mirrors(NativeAddr(OperandStack, Instr.segment, Instr.arg),
                AddrResult(OperandStack, Instr.segment, Instr.arg))
    BY <1>1, <2>1, <2>2, FetchedTogether, AddrMirrors
  <2>4. QED
    BY <1>5, <2>1, <2>3, FetchedTogether, OperateTogether DEF Addr, NativeDoesAddr
<1>6. CASE Offset
  <2>1. Fetch("Offset") /\ NativeDoesOffset
    BY <1>6, NativeExecutes DEF Offset
  <2>2. Mirrors(NativeOffset(OperandStack), OffsetResult(OperandStack))
    BY <2>1, FetchedTogether, OffsetMirrors
  <2>3. QED
    BY <1>6, <2>1, <2>2, FetchedTogether, OperateTogether DEF Offset, NativeDoesOffset
<1>7. CASE Dereference
  <2>1. Fetch("Dereference") /\ NativeDoesDereference
    BY <1>7, NativeExecutes DEF Dereference
  <2>2. Mirrors(NativeDereference(OperandStack, Instr.kind),
                DereferenceResult(OperandStack, Instr.kind))
    BY <1>1, <2>1, FetchedTogether, DereferenceMirrors
  <2>3. QED
    BY <1>7, <2>1, <2>2, FetchedTogether, OperateTogether
       DEF Dereference, NativeDoesDereference
<1>8. CASE Compare
  <2>1. Fetch("Compare") /\ NativeDoesCompare
    BY <1>8, NativeExecutes DEF Compare
  <2>2. Mirrors(NativeComparison(OperandStack, Instr.kind, Instr.sub),
                CompareResult(OperandStack, Instr.kind, Instr.sub))
    BY <2>1, FetchedTogether, CompareMirrors
  <2>3. QED
    BY <1>8, <2>1, <2>2, FetchedTogether, OperateTogether
       DEF Compare, NativeDoesCompare
<1>9. QED
  BY <1>2, <1>3, <1>4, <1>5, <1>6, <1>7, <1>8

LEMMA AssignTogether ==
  ASSUME SideBySide, NativeExecute, Assign
  PROVE  SameEnd'
<1> DEFINE s == OperandStack
           kind == Instr.kind
           outcome == AssignResult(s, kind)
           native == NativeAssign(s, kind)
<1>1. Fetch("Assign") /\ NativeDoesAssign
  BY NativeExecutes DEF Assign
<1>2. /\ s \in StackBytes /\ kind \in Kind
      /\ NativeInstr.kind = kind /\ NativeStack = s
  BY <1>1, FetchedTogether
<1>3. memory \in Memory /\ nativeMemory = memory /\ ReservedEmpty /\ SameState
  BY ReservedAreEmpty DEF SideBySide, SameState, TypeInv
<1>4. /\ native.defined <=> outcome.status = "OK"
      /\ native.defined => NativeAssigned(s, kind) = Assigned(s, kind, outcome.stack)
  BY <1>2, <1>3, AssignMirrors
<1>5. CASE outcome.status # "OK"
  <2>1. ~ native.defined
    BY <1>4, <1>5
  <2>2. Break
    BY <1>1, <1>2, <2>1 DEF NativeDoesAssign
  <2>3. Abort(outcome)
    BY <1>5 DEF Assign, Conclude
  <2>4. QED
    BY <1>5, <2>2, <2>3, BothFail
<1>6. CASE outcome.status = "OK"
  <2>1. native.defined
    BY <1>4, <1>6
  <2>2. /\ nativePC' = pc + 1 /\ UNCHANGED nativeMode
        /\ nativeMemory' = NativeAssigned(s, kind)
        /\ nativeFrames' = nativeFrames /\ nativeFrameTop' = nativeFrameTop
    BY <1>1, <1>2, <1>3, <2>1
       DEF NativeDoesAssign, ContinueAt, nativeCallVars, SameState
  <2>3. /\ GoOn(pc + 1) /\ memory' = Assigned(s, kind, outcome.stack)
        /\ callFrames' = callFrames /\ frameTop' = frameTop
    BY <1>6 DEF Assign, Conclude, callVars
  <2>4. QED
    BY <1>3, <1>4, <2>1, <2>2, <2>3, BothGoOn DEF SameState
<1>7. QED
  BY <1>5, <1>6

LEMMA JumpToTogether ==
  ASSUME SideBySide, NEW target \in Nat, NEW stack, NEW mem,
         mem = [memory EXCEPT ![Stack] = stack],
         JumpTo(target, stack), UNCHANGED callVars, NativeJumpTo(target, mem)
  PROVE  SameEnd'
<1>1. /\ nativeProgram.text = running.text /\ Len(running.text) \in Nat
      /\ SameState
  BY SameInstruction DEF SideBySide
<1>2. CASE target < Len(running.text)
  <2>1. ~ (target >= Len(running.text))
    BY <1>1, <1>2
  <2>2. GoOn(target) /\ memory' = mem /\ callFrames' = callFrames /\ frameTop' = frameTop
    BY <2>1 DEF JumpTo, callVars
  <2>3. /\ nativePC' = target /\ UNCHANGED nativeMode /\ nativeMemory' = mem
        /\ nativeFrames' = nativeFrames /\ nativeFrameTop' = nativeFrameTop
    BY <1>1, <2>1 DEF NativeJumpTo, ContinueAt, nativeCallVars
  <2>4. QED
    BY <1>1, <2>2, <2>3, BothGoOn DEF SameState
<1>3. CASE ~ (target < Len(running.text))
  <2>1. Break
    BY <1>1, <1>3 DEF NativeJumpTo
  <2>2. Abort(Sets("InvalidTarget", stack))
    BY <1>3 DEF JumpTo
  <2>3. Sets("InvalidTarget", stack).status # "OK"
    BY DEF Sets
  <2>4. QED
    BY <2>1, <2>2, <2>3, BothFail
<1>4. QED
  BY <1>2, <1>3

LEMMA JumpTogether ==
  ASSUME SideBySide, NativeExecute, Jump \/ JumpIfFalse
  PROVE  SameEnd'
<1>1. /\ memory \in Memory /\ nativeMemory = memory /\ nativePC = pc
      /\ OperandStack \in StackBytes /\ SameState
  BY SameInstruction DEF SideBySide
<1>2. memory \in [Segment -> Seq(Byte)] /\ Stack \in Segment
  BY <1>1 DEF Memory, Segment, Stack
<1>3. CASE Jump
  <2>1. Fetch("Jump") /\ NativeDoesJump
    BY <1>3, NativeExecutes DEF Jump
  <2>2. Instr.arg \in Nat /\ NativeInstr = Instr
    BY <2>1, FetchedTogether
  <2>3. nativeMemory = [memory EXCEPT ![Stack] = OperandStack]
    BY <1>1, <1>2 DEF OperandStack
  <2>4. /\ JumpTo(Instr.arg, OperandStack) /\ UNCHANGED callVars
        /\ NativeJumpTo(Instr.arg, nativeMemory)
    BY <1>3, <2>1, <2>2 DEF Jump, NativeDoesJump
  <2>5. QED
    BY <2>2, <2>3, <2>4, JumpToTogether
<1>4. CASE JumpIfFalse
  <2> DEFINE s == OperandStack
             popped == [nativeMemory EXCEPT ![Stack] = Truncate(@, 1)]
  <2>1. Fetch("JumpIfFalse") /\ NativeDoesJumpIfFalse
    BY <1>4, NativeExecutes DEF JumpIfFalse
  <2>2. Instr.arg \in Nat /\ NativeInstr = Instr /\ NativeStack = s
    BY <2>1, FetchedTogether
  <2>3. Len(s) \in Nat
    BY <1>1 DEF StackBytes
  <2>4. popped = [memory EXCEPT ![Stack] = Truncate(s, 1)]
    BY <1>1, <1>2 DEF OperandStack
  <2> HIDE DEF popped
  <2>5. CASE Len(s) < 1
    <3>1. Underflow(s, 1).status # "OK"
      BY DEF Underflow, Records
    <3>2. Operate(Underflow(s, 1))
      BY <1>4, <2>3, <2>5 DEF JumpIfFalse
    <3>3. Break
      BY <2>1, <2>2, <2>3, <2>5 DEF NativeDoesJumpIfFalse
    <3>4. QED
      BY <3>1, <3>2, <3>3, BothFail DEF Operate, Conclude
  <2>6. CASE ~ (Len(s) < 1) /\ Operand(s, 1, 1) # 0
    <3>1. Operate(Done(Truncate(s, 1)))
      BY <1>4, <2>6 DEF JumpIfFalse
    <3>2. NativeOperate(Defined(Truncate(s, 1)))
      <4>1. ContinueAt(nativePC + 1, popped) /\ UNCHANGED nativeTimeVars
        BY <2>1, <2>2, <2>3, <2>6 DEF NativeDoesJumpIfFalse, popped
      <4>2. popped = [nativeMemory EXCEPT ![Stack] = Truncate(s, 1)]
        BY <1>1, <2>4
      <4>3. QED
        BY <4>1, <4>2 DEF NativeOperate, Defined
    <3>3. QED
      BY <3>1, <3>2, MirrorsDone, OperateTogether
  <2>7. CASE ~ (Len(s) < 1) /\ Operand(s, 1, 1) = 0
    <3>1. JumpTo(Instr.arg, Truncate(s, 1)) /\ UNCHANGED callVars
      BY <1>4, <2>7 DEF JumpIfFalse
    <3>2. NativeJumpTo(Instr.arg, popped)
      BY <2>1, <2>2, <2>3, <2>7 DEF NativeDoesJumpIfFalse, popped
    <3>3. QED
      BY <2>2, <2>4, <3>1, <3>2, JumpToTogether
  <2>8. QED
    BY <2>5, <2>6, <2>7
<1>5. QED
  BY <1>3, <1>4

LEMMA CallTogether ==
  ASSUME SideBySide, NativeExecute, Call
  PROVE  SameEnd'
<1> DEFINE f == Instr.arg
           fn == program.functions[f + 1]
           status == EnterStatus(program, f, OperandStack, frameTop, Len(callFrames))
           enterable == NativeEnterable(program, f, OperandStack, frameTop,
                                        Len(callFrames))
<1>1. Fetch("Call") /\ NativeDoesCall
  BY NativeExecutes DEF Call
<1>2. /\ f \in Nat /\ OperandStack \in StackBytes
      /\ NativeInstr = Instr /\ NativeStack = OperandStack
  BY <1>1, FetchedTogether
<1>3. /\ nativeProgram = program /\ SameState
      /\ frameTop \in Nat /\ callFrames \in Seq(FrameType)
  BY DEF SideBySide, TypeInv, CallsType
<1>4. program \in LinkedProgram /\ NativeAccepts(program)
  <2>1. program \in Programs
    BY DEF SideBySide, TypeInv, LoadType
  <2>2. nativeProgram # NoProgram
    BY <1>3, <2>1, VMAssumption
  <2>3. NativeAccepts(nativeProgram) /\ nativeProgram \in LinkedProgram
    BY <2>2, BoundProgram DEF SideBySide
  <2>4. QED
    BY <1>3, <2>3
<1>5. enterable <=> status = "OK"
  <2>1. Len(callFrames) \in Nat /\ OperandStack \in Seq(Byte)
    BY <1>2, <1>3 DEF StackBytes
  <2>2. QED
    BY <1>2, <1>3, <1>4, <2>1, EnterMirrors
<1>6. enterable <=> NativeEnterable(nativeProgram, NativeInstr.arg, NativeStack,
                                    nativeFrameTop, Len(nativeFrames))
  BY <1>2, <1>3 DEF SameState
<1> HIDE DEF enterable, status
<1>7. CASE status # "OK"
  <2>1. Break
    BY <1>1, <1>5, <1>6, <1>7 DEF NativeDoesCall
  <2>2. Abort(Sets(status, OperandStack))
    BY <1>7 DEF Call, status
  <2>3. Sets(status, OperandStack).status # "OK"
    BY <1>7 DEF Sets
  <2>4. QED
    BY <2>1, <2>2, <2>3, BothFail
<1>8. CASE status = "OK"
  <2>1. /\ GoOn(fn.bodyAddress)
        /\ memory' = Entered(program, fn, memory, frameTop)
        /\ callFrames' = Append(callFrames, Activation(fn, frameTop, pc + 1))
        /\ frameTop' = frameTop + fn.frameByteSize
    BY <1>8 DEF Call, PushFrame, PCAfterCall, status
  <2>2. /\ NativeEnter(f, nativeMemory, nativeFrames, nativeFrameTop, nativePC + 1)
        /\ UNCHANGED nativeMode
    BY <1>1, <1>2, <1>5, <1>6, <1>8 DEF NativeDoesCall
  <2>3. /\ nativeMemory' = Entered(program, fn, memory, frameTop)
        /\ nativeFrames' = Append(callFrames, Activation(fn, frameTop, pc + 1))
        /\ nativeFrameTop' = frameTop + fn.frameByteSize
        /\ nativePC' = fn.bodyAddress
    BY <1>3, <2>2 DEF NativeEnter, SameState
  <2>4. QED
    BY <2>1, <2>2, <2>3, BothGoOn
<1>9. QED
  BY <1>7, <1>8

LEMMA CallExternTogether ==
  ASSUME SideBySide, NativeExecute, CallExtern
  PROVE  SameEnd'
<1>1. Fetch("CallExtern") /\ NativeDoesCallExtern
  BY NativeExecutes DEF CallExtern
<1>2. nativeDispatcher = hasDispatcher /\ SameState
  BY DEF SideBySide
<1>3. CASE ~ hasDispatcher
  <2>1. Abort(Sets("MissingExtern", OperandStack)) /\ Break
    BY <1>1, <1>2, <1>3 DEF CallExtern, NativeDoesCallExtern
  <2>2. Sets("MissingExtern", OperandStack).status # "OK"
    BY DEF Sets
  <2>3. QED
    BY <2>1, <2>2, BothFail
<1>4. CASE hasDispatcher
  <2>1. /\ mode' = "host" /\ pc' = pc + 1
        /\ memory' = memory /\ callFrames' = callFrames /\ frameTop' = frameTop
    BY <1>4 DEF CallExtern, callVars
  <2>2. /\ nativeMode' = "host" /\ nativePC' = nativePC + 1
        /\ nativeMemory' = nativeMemory
        /\ nativeFrames' = nativeFrames /\ nativeFrameTop' = nativeFrameTop
    BY <1>1, <1>2, <1>4 DEF NativeDoesCallExtern, nativeCallVars
  <2>3. QED
    BY <1>2, <2>1, <2>2 DEF SameEnd, SameState
<1>5. QED
  BY <1>3, <1>4

LEMMA RetTogether ==
  ASSUME SideBySide, NativeExecute, Ret
  PROVE  SameEnd'
<1> DEFINE frame == callFrames[Len(callFrames)]
           size == KindSize(frame.returnKind)
           nativeFrame == nativeFrames[Len(nativeFrames)]
<1>1. Fetch("Ret") /\ NativeDoesRet
  BY NativeExecutes DEF Ret
<1>2. /\ NativeStack = OperandStack /\ nativeFrames = callFrames
      /\ nativeFrame = frame /\ nativePC = pc /\ nativeMemory = memory
      /\ nativeMode = "script" /\ mode = "script"
  BY <1>1, FetchedTogether DEF SideBySide, SameState
<1>3. OperandStack \in StackBytes /\ callFrames \in Seq(FrameType)
  BY <1>1, FetchedTogether DEF SideBySide, TypeInv, CallsType
<1>4. CASE callFrames = << >>
  <2>1. Break
    BY <1>1, <1>2, <1>4 DEF NativeDoesRet
  <2>2. Abort(Records("InvalidLifecycle", OperandStack))
    BY <1>4 DEF Ret
  <2>3. Records("InvalidLifecycle", OperandStack).status # "OK"
    BY DEF Records
  <2>4. QED
    BY <2>1, <2>2, <2>3, BothFail
<1>5. CASE callFrames # << >>
  <2>1. Len(OperandStack) \in Nat /\ size \in Nat
    <3>1. frame \in FrameType
      BY <1>3, <1>5
    <3>2. frame.returnKind \in Kind
      BY <3>1 DEF FrameType
    <3>3. QED
      BY <1>3, <3>2, KindSizes DEF StackBytes
  <2>2. CASE Len(OperandStack) < size
    <3>1. ~ (size <= Len(NativeStack))
      BY <1>2, <2>1, <2>2
    <3>2. Break
      BY <1>1, <1>2, <3>1 DEF NativeDoesRet
    <3>3. Abort(Records("StackUnderflow", OperandStack))
      BY <1>5, <2>1, <2>2 DEF Ret
    <3>4. Records("StackUnderflow", OperandStack).status # "OK"
      BY DEF Records
    <3>5. QED
      BY <3>2, <3>3, <3>4, BothFail
  <2>3. CASE ~ (Len(OperandStack) < size)
    <3>1. size <= Len(NativeStack)
      BY <1>2, <2>1, <2>3
    <3>2. /\ nativeFrames' = BelowTop(callFrames)
          /\ nativeFrameTop' = frame.localBase
          /\ IF Len(callFrames) = 1 THEN nativeMode' = "idle"
             ELSE nativePC' = frame.returnPC /\ nativeMode' = nativeMode
          /\ nativeMemory' = nativeMemory
      BY <1>1, <1>2, <1>5, <3>1 DEF NativeDoesRet
    <3>3. /\ callFrames' = BelowTop(callFrames)
          /\ frameTop' = frame.localBase
          /\ IF Len(callFrames) = 1 THEN Leave("OK", fault)
             ELSE GoOn(frame.returnPC)
          /\ memory' = memory
      BY <1>5, <2>3 DEF Ret, LastActivation
    <3>4. CASE Len(callFrames) = 1
      BY <3>2, <3>3, <3>4 DEF Leave, SameEnd
    <3>5. CASE Len(callFrames) # 1
      BY <1>2, <3>2, <3>3, <3>5, BothGoOn
    <3>6. QED
      BY <3>4, <3>5
  <2>4. QED
    BY <2>2, <2>3
<1>6. QED
  BY <1>4, <1>5

LEMMA EndTogether ==
  ASSUME SideBySide, NativeExecute, Unknown \/ Truncated \/ EndOfText
  PROVE  SameEnd'
<1>1. CASE Unknown \/ Truncated
  <2>1. PICK op \in {"Unknown", "Truncated"} : Fetch(op)
    BY <1>1 DEF Unknown, Truncated
  <2>2. Break
    BY <2>1, NativeExecutes DEF NativeDoesUnknown
  <2>3. PICK outcome : outcome.status # "OK" /\ Abort(outcome)
    BY <1>1 DEF Unknown, Truncated, Sets, Records
  <2>4. QED
    BY <2>2, <2>3, BothFail
<1>2. CASE EndOfText
  <2>1. /\ pc >= Len(running.text) /\ nativePC = pc /\ pc \in Nat
        /\ nativeProgram.text = running.text /\ Len(running.text) \in Nat
    BY <1>2, SameInstruction DEF EndOfText
  <2>2. ~ (nativePC < Len(nativeProgram.text))
    BY <2>1
  <2>3. NativeEndOfText
    BY <2>2
       DEF NativeExecute, NativeDoesPush, NativeDoesArithmetic, NativeDoesConvert,
           NativeDoesAddr, NativeDoesOffset, NativeDoesDereference,
           NativeDoesAssign, NativeDoesCompare, NativeDoesTickTime,
           NativeDoesTimer, NativeDoesJump, NativeDoesJumpIfFalse, NativeDoesCall,
           NativeDoesCallExtern, NativeDoesRet, NativeDoesUnknown, NativeFetch
  <2>4. QED
    BY <1>2, <2>3 DEF EndOfText, NativeEndOfText, Leave, SameEnd
<1>3. QED
  BY <1>1, <1>2

LEMMA TickTimeTogether ==
  ASSUME SideBySide, NativeExecute, BuiltIn,
         Instr.sub = "TickTime" => nativeTime.tickTime = tickTime
  PROVE  SameEnd'
<1>1. Fetch("BuiltIn") /\ Instr.sub \notin TimerBuiltIn
  BY DEF BuiltIn
<1>2. Instr.sub = "TickTime" /\ NativeDoesTickTime
  BY <1>1, NativeExecutes
<1>3. /\ OperandStack \in StackBytes
      /\ NativeInstr = Instr /\ NativeStack = OperandStack
  BY <1>1, FetchedTogether
<1>4. PICK outcome \in BuiltInOutcomes(OperandStack, Instr.kind, "TickTime") :
        Operate(outcome)
  BY <1>2 DEF BuiltIn
<1>5. Mirrors(NativeTickTime(OperandStack, Instr.kind), outcome)
  BY <1>2, <1>3, TickTimeMirrors
<1>6. NativeOperate(NativeTickTime(OperandStack, Instr.kind))
  BY <1>2, <1>3 DEF NativeDoesTickTime
<1>7. QED
  BY <1>4, <1>5, <1>6, OperateTogether

LEMMA TimerTogether ==
  ASSUME SideBySide, NativeExecute, Timer, ~ AsksStoppedTimer,
         DeadlinesMatch, nativeTime.current = currentTime
  PROVE  SameEnd' /\ DeadlinesMatch'
<1> DEFINE s == OperandStack
           op == Instr.sub
           native == NativeTimer(s, Instr.kind, op)
           outcome == TimerResult(s, Instr.kind, op)
           id == Operand(SlotStack(s, op), 1, 1)
           duration == Operand(s, 4, 1)
<1>1. Fetch("BuiltIn") /\ op \in TimerBuiltIn
  BY DEF Timer
<1>2. NativeDoesTimer
  <2>1. op # "TickTime"
    BY <1>1 DEF TimerBuiltIn
  <2>2. QED
    BY <1>1, <2>1, NativeExecutes
<1>3. /\ s \in StackBytes /\ Instr.kind \in Kind
      /\ NativeInstr = Instr /\ NativeStack = s
  BY <1>1, FetchedTogether
<1>4. Mirrors(native, outcome)
  <2>1. ASSUME op = "TimerDone", s # << >>, Operand(s, 1, 1) \in TimerId
        PROVE  NativeTimerDone(Operand(s, 1, 1)) <=> TimerDone(Operand(s, 1, 1))
    <3>1. nativeTimers[Operand(s, 1, 1)].durationMS # 0
      BY <1>1, <2>1 DEF AsksStoppedTimer, Fetch
    <3>2. QED
      BY <2>1, <3>1, DoneMatches
  <2>2. QED
    BY <1>1, <1>3, <2>1, TimerMirrors
<1>5. Operate(outcome)
  BY DEF Timer
<1>6. CASE outcome.status # "OK"
  <2>1. ~ native.defined
    BY <1>4, <1>6 DEF Mirrors
  <2>2. Break
    BY <1>2, <1>3, <2>1 DEF NativeDoesTimer
  <2>3. Abort(outcome)
    BY <1>5, <1>6 DEF Operate, Conclude
  <2>4. timers' = timers
    BY <1>6 DEF Timer, timeVars
  <2>5. nativeTimers' = nativeTimers
    BY <2>2 DEF Break, nativeTimeVars
  <2>6. QED
    BY <1>6, <2>2, <2>3, <2>4, <2>5, BothFail DEF DeadlinesMatch
<1>7. CASE outcome.status = "OK"
  <2>1. native.defined
    BY <1>4, <1>7 DEF Mirrors
  <2>2. /\ ContinueAt(nativePC + 1, [nativeMemory EXCEPT ![Stack] = native.stack])
        /\ nativeTimers' = [nativeTimers EXCEPT ![id] = TimerAfter(op, id, duration)]
    BY <1>2, <1>3, <2>1 DEF NativeDoesTimer
  <2>3. SameEnd'
    <3>1. native.stack = outcome.stack
      BY <1>4, <2>1 DEF Mirrors
    <3>2. /\ GoOn(pc + 1) /\ memory' = [memory EXCEPT ![Stack] = outcome.stack]
          /\ callFrames' = callFrames /\ frameTop' = frameTop
      BY <1>5, <1>7 DEF Operate, Conclude, callVars
    <3>3. /\ nativePC' = nativePC + 1 /\ UNCHANGED nativeMode
          /\ nativeMemory' = [nativeMemory EXCEPT ![Stack] = outcome.stack]
          /\ nativeFrames' = nativeFrames /\ nativeFrameTop' = nativeFrameTop
      BY <2>2, <3>1 DEF ContinueAt, nativeCallVars
    <3>4. SameState
      BY DEF SideBySide
    <3>5. QED
      BY <3>2, <3>3, <3>4, BothGoOn DEF SameState
  <2>4. id \in TimerId /\ (op = "TimerStart" => duration \in 0 .. MaxTime)
    <3>1. id \in TimerId
      BY <2>1, TimerChecked
    <3>2. op = "TimerStart" => duration \in Word
      BY <1>1, <1>3, <2>1, TimerChecked, TimerOperands
    <3>3. Word \subseteq 0 .. MaxTime
      BY TimeAssumption, VMAssumption, WordMax DEF Word
    <3>4. QED
      BY <3>1, <3>2, <3>3
  <2>5. \/ op = "TimerStart" /\ TimerStart(id, duration)
        \/ op = "TimerStop" /\ TimerStop(id)
        \/ op = "TimerReset" /\ TimerReset(id)
        \/ op = "TimerDone" /\ UNCHANGED timeVars
    BY <1>7 DEF Timer, TimerEffect
  <2>6. TimeTypeOK /\ NativeTimeType
    BY DEF SideBySide, TypeInv, NativeInv
  <2> HIDE DEF id, duration, op
  <2>7. DeadlinesMatch'
    BY <1>1, <2>2, <2>4, <2>5, <2>6, EffectsMatch
  <2>8. QED
    BY <2>3, <2>7
<1>8. QED
  BY <1>6, <1>7

(* One instruction in both: they go on alike or end alike.                 *)
LEMMA ExecuteTogether ==
  ASSUME SideBySide, NativeExecute, Execute, ReasonsOfInstruction = {},
         DeadlinesMatch, nativeTime.current = currentTime,
         ~ oneFirst => nativeTime.tickTime = tickTime
  PROVE  SameEnd' /\ DeadlinesMatch'
<1>1. ~ (pc >= Len(running.text)) =>
        /\ ~ AsksStoppedTimer /\ ~ NamesNoSegment
        /\ ~ (Instr.op = "BuiltIn" /\ Instr.sub = "TickTime" /\ oneFirst)
  BY DEF ReasonsOfInstruction
<1>2. pc \in Nat /\ Len(running.text) \in Nat
  BY SameInstruction
<1>3. ASSUME NEW op, Fetch(op)
      PROVE  /\ ~ AsksStoppedTimer /\ ~ NamesNoSegment /\ Instr.op = op
             /\ op = "BuiltIn" /\ Instr.sub = "TickTime" =>
                  nativeTime.tickTime = tickTime
  BY <1>1, <1>2, <1>3 DEF Fetch
<1>4. CASE Timer
  BY <1>3, <1>4, TimerTogether DEF Timer
<1>5. CASE ~ Timer
  <2>1. timers' = timers
    BY <1>5 DEF Execute, Push, Arithmetic, Convert, Addr, Offset, Dereference,
                Assign, Compare, Jump, JumpIfFalse, Call, CallExtern, Ret,
                BuiltIn, Unknown, Truncated, EndOfText, timeVars
  <2>2. nativeTimers' = nativeTimers
    <3>1. ~ NativeDoesTimer
      <4>1. SUFFICES ASSUME NativeDoesTimer
                     PROVE  Timer
        BY <1>5
      <4>2. Fetch("BuiltIn") /\ Instr.sub \in TimerBuiltIn
        <5>1. NativeInstr = Instr /\ pc < Len(running.text)
          BY <4>1, SameInstruction DEF NativeDoesTimer, NativeFetch
        <5>2. Instr.op = "BuiltIn" /\ Instr.sub \in TimerBuiltIn
          BY <4>1, <5>1 DEF NativeDoesTimer, NativeFetch
        <5>3. QED
          BY <1>2, <5>1, <5>2
             DEF Execute, Push, Arithmetic, Convert, Addr, Offset, Dereference,
                 Assign, Compare, Jump, JumpIfFalse, Call, CallExtern, Ret,
                 BuiltIn, Timer, Unknown, Truncated, EndOfText, Fetch
      <4>3. QED
        BY <1>2, <4>2
           DEF Execute, Push, Arithmetic, Convert, Addr, Offset, Dereference,
               Assign, Compare, Jump, JumpIfFalse, Call, CallExtern, Ret,
               BuiltIn, Unknown, Truncated, EndOfText, Fetch
    <3>2. QED
      BY <3>1 DEF NativeExecute, NativeDoesPush, NativeDoesArithmetic,
                  NativeDoesConvert, NativeDoesAddr, NativeDoesOffset,
                  NativeDoesDereference, NativeDoesAssign, NativeDoesCompare,
                  NativeDoesTickTime, NativeDoesJump, NativeDoesJumpIfFalse,
                  NativeDoesCall, NativeDoesCallExtern, NativeDoesRet,
                  NativeDoesUnknown, NativeEndOfText, NativeOperate, NativeJumpTo,
                  Break, nativeTimeVars
  <2>3. DeadlinesMatch'
    BY <2>1, <2>2 DEF DeadlinesMatch
  <2>4. CASE Push \/ Arithmetic \/ Convert \/ Addr \/ Offset \/ Dereference
               \/ Compare
    <3>1. ~ NamesNoSegment
      BY <1>3, <2>4 DEF Push, Arithmetic, Convert, Addr, Offset, Dereference, Compare
    <3>2. QED
      BY <2>3, <2>4, <3>1, StackTogether
  <2>5. CASE BuiltIn
    <3>1. Fetch("BuiltIn")
      BY <2>5 DEF BuiltIn
    <3>2. QED
      BY <1>3, <2>3, <2>5, <3>1, TickTimeTogether
  <2>6. QED
    BY <1>5, <2>3, <2>4, <2>5, AssignTogether, JumpTogether, CallTogether,
       CallExternTogether, RetTogether, EndTogether
       DEF Execute
<1>6. QED
  BY <1>4, <1>5

-----------------------------------------------------------------------------
(* Each step of the two preserves the relation. *)

LEMMA RelationFrom ==
  ASSUME Bound', ClocksMatch', apart' = {} => DeadlinesMatch',
         apart' = {} /\ nativeProgram' # NoProgram => SameEnd'
  PROVE  RelationInv'
<1>1. nativeProgram' # NoProgram => nativeProgram' = program'
  BY DEF Bound
<1>2. RuntimesAgree'
  BY <1>1 DEF RuntimesAgree, SameEnd, SameState
<1>3. QED
  BY <1>2 DEF RelationInv, TimersMatch

LEMMA Agreeing ==
  ASSUME RelationInv, apart = {}
  PROVE  DeadlinesMatch /\ (nativeProgram # NoProgram => SameEnd)
BY AgreeMeans DEF RelationInv, TimersMatch

LEMMA NativeRunsProgram ==
  ASSUME NativeInv, nativeMode \in {"script", "host"}
  PROVE  nativeProgram # NoProgram /\ nativeProgram \in Programs
BY VMAssumption DEF NativeInv, NativeFlowType

LEMMA StepTogetherRelates ==
  ASSUME TypeInv, NativeInv, RelationInv, StepTogether
  PROVE  RelationInv'
<1>1. /\ mode = "script" /\ nativeMode = "script" /\ Execute /\ NativeExecute
      /\ apart' = apart \cup ReasonsOfInstruction /\ oneFirst' = oneFirst
  BY DEF StepTogether
<1>2. GoKeeps /\ NativeKeeps
  BY <1>1, ExecuteKeeps, NativeExecuteKeeps
<1>3. nativeProgram # NoProgram
  BY <1>1, NativeRunsProgram
<1>4. /\ Bound /\ ClocksMatch /\ nativeProgram = program /\ running = program
      /\ nativeDispatcher = hasDispatcher /\ UnlaidEmpty
      /\ nativeMemory[Const] = nativeProgram.constData
  BY <1>1, <1>3 DEF RelationInv, Bound
<1>5. /\ nativeProgram' = nativeProgram /\ nativeDispatcher' = nativeDispatcher
      /\ nativeTime' = nativeTime /\ program' = program
      /\ hasDispatcher' = hasDispatcher /\ currentTime' = currentTime
      /\ tickTime' = tickTime /\ nativeMemory'[Const] = nativeMemory[Const]
      /\ mode' # "idle" => running' = running
  BY <1>2 DEF GoKeeps, NativeKeeps, nativeBinding
<1>6. UnlaidEmpty'
  BY <1>2, <1>4 DEF GoKeeps, NativeKeeps, UnlaidEmpty
<1>7. Bound'
  BY <1>3, <1>4, <1>5, <1>6 DEF Bound
<1>8. ClocksMatch'
  BY <1>1, <1>4, <1>5 DEF ClocksMatch
<1>9. ASSUME apart' = {}
      PROVE  SameEnd' /\ DeadlinesMatch'
  <2>1. apart = {} /\ ReasonsOfInstruction = {}
    BY <1>1, <1>9
  <2>2. DeadlinesMatch /\ SameEnd
    BY <1>3, <2>1, Agreeing
  <2>3. SameState
    BY <1>1, <2>2 DEF SameEnd
  <2>4. SideBySide
    BY <1>1, <1>4, <2>3 DEF SideBySide
  <2>5. nativeTime.current = currentTime
          /\ (~ oneFirst => nativeTime.tickTime = tickTime)
    BY <1>1, <1>4, <2>1 DEF ClocksMatch
  <2>6. QED
    BY <1>1, <2>1, <2>2, <2>4, <2>5, ExecuteTogether
<1>10. QED
  BY <1>7, <1>8, <1>9, RelationFrom

(* One that goes on by itself: they have come apart, or the native one is  *)
(* not in use and has no timers.                                           *)
LEMMA StepAloneRelates ==
  ASSUME TypeInv, NativeInv, RelationInv, StepAlone
  PROVE  RelationInv'
<1>1. Bound /\ ClocksMatch /\ UnlaidEmpty /\ apart' = apart /\ oneFirst' = oneFirst
  BY DEF StepAlone, apartVars, RelationInv, Bound
<1>2. ASSUME apart = {}, nativeProgram # NoProgram
      PROVE  FALSE
  <2>1. SameEnd
    BY <1>2, Agreeing
  <2>2. QED
    BY <2>1 DEF SameEnd, StepAlone
<1>3. CASE mode = "script" /\ Execute /\ UNCHANGED nativeVars
  <2>1. GoKeeps
    BY <1>3, ExecuteKeeps
  <2>2. /\ program' = program /\ hasDispatcher' = hasDispatcher
        /\ currentTime' = currentTime /\ tickTime' = tickTime
        /\ mode' # "idle" => running' = running
    BY <2>1 DEF GoKeeps
  <2>3. /\ nativeProgram' = nativeProgram /\ nativeDispatcher' = nativeDispatcher
        /\ nativeTime' = nativeTime /\ nativeTimers' = nativeTimers
        /\ nativeMode' = nativeMode /\ nativeMemory' = nativeMemory
    BY <1>3 DEF nativeVars, nativeBinding, nativeTimeVars
  <2>4. UnlaidEmpty'
    BY <1>1, <2>1, <2>3 DEF GoKeeps, UnlaidEmpty
  <2>5. Bound'
    BY <1>1, <1>3, <2>2, <2>3, <2>4 DEF Bound
  <2>6. ClocksMatch'
    BY <1>1, <2>2, <2>3 DEF ClocksMatch
  <2>7. ASSUME apart' = {}
        PROVE  DeadlinesMatch' /\ nativeProgram' = NoProgram
    <3>1. nativeProgram = NoProgram
      BY <1>1, <1>2, <2>7
    <3>2. nativeTimers' = NoTimers
      BY <1>1, <2>3, <3>1 DEF Bound
    <3>3. QED
      BY <2>3, <3>1, <3>2 DEF DeadlinesMatch, NoTimers
  <2>8. QED
    BY <2>5, <2>6, <2>7, RelationFrom
<1>4. CASE nativeMode = "script" /\ NativeExecute /\ UNCHANGED vars
  <2>1. NativeKeeps /\ nativeProgram # NoProgram
    BY <1>4, NativeExecuteKeeps, NativeRunsProgram
  <2>2. /\ nativeProgram' = nativeProgram /\ nativeDispatcher' = nativeDispatcher
        /\ nativeTime' = nativeTime /\ nativeMemory'[Const] = nativeMemory[Const]
    BY <2>1 DEF NativeKeeps, nativeBinding
  <2>3. /\ program' = program /\ hasDispatcher' = hasDispatcher
        /\ currentTime' = currentTime /\ tickTime' = tickTime
        /\ mode' = mode /\ running' = running /\ memory' = memory
    BY <1>4 DEF vars, vmVars, timeVars
  <2>4. UnlaidEmpty'
    BY <1>1, <2>1, <2>3 DEF NativeKeeps, UnlaidEmpty
  <2>5. Bound'
    BY <1>1, <2>1, <2>2, <2>3, <2>4 DEF Bound
  <2>6. ClocksMatch'
    BY <1>1, <1>4, <2>2, <2>3 DEF ClocksMatch
  <2>7. apart' # {}
    BY <1>1, <1>2, <2>1
  <2>8. QED
    BY <2>5, <2>6, <2>7, RelationFrom
<1>5. QED
  BY <1>3, <1>4 DEF StepAlone

(* What the host does to the operand stack, as in Go or not at all.        *)
LEMMA HostStackRelates ==
  ASSUME TypeInv, NativeInv, RelationInv, NEW outcome, NEW native,
         mode = "host", HostStackOperation(outcome), NativeHostStack(native),
         apart \subseteq apart', oneFirst' = oneFirst,
         apart' = {} /\ NativeStack = OperandStack =>
           native.defined /\ native.stack = outcome.stack
  PROVE  RelationInv'
<1>1. /\ Bound /\ ClocksMatch /\ nativeMode = "host" /\ nativeProgram # NoProgram
      /\ nativeProgram = program /\ running = program
      /\ nativeDispatcher = hasDispatcher /\ UnlaidEmpty
      /\ nativeMemory[Const] = nativeProgram.constData
  BY NativeRunsProgram DEF NativeHostStack, RelationInv, Bound
<1>2. /\ mode' = mode /\ program' = program /\ running' = running /\ pc' = pc
      /\ callFrames' = callFrames /\ frameTop' = frameTop
      /\ hasDispatcher' = hasDispatcher /\ currentTime' = currentTime
      /\ tickTime' = tickTime /\ timers' = timers
      /\ memory' = [memory EXCEPT ![Stack] = outcome.stack]
  BY DEF HostStackOperation, callVars, timeVars
<1>3. /\ nativeProgram' = nativeProgram /\ nativeDispatcher' = nativeDispatcher
      /\ nativeTime' = nativeTime /\ nativeTimers' = nativeTimers
      /\ \/ nativeMemory' = nativeMemory
         \/ nativeMemory' = [nativeMemory EXCEPT ![Stack] = native.stack]
      /\ native.defined =>
           /\ nativeMode' = "host" /\ nativePC' = nativePC
           /\ nativeFrames' = nativeFrames /\ nativeFrameTop' = nativeFrameTop
           /\ nativeMemory' = [nativeMemory EXCEPT ![Stack] = native.stack]
  BY <1>1 DEF NativeHostStack, Break, ContinueAt, nativeBinding, nativeTimeVars,
              nativeCallVars
<1>4. /\ \A segment \in Unlaid \cup {Const} : memory'[segment] = memory[segment]
      /\ \A segment \in Unlaid \cup {Const} :
           nativeMemory'[segment] = nativeMemory[segment]
  <2>1. memory \in Memory /\ nativeMemory \in Memory
    BY DEF TypeInv, NativeInv
  <2>2. \A segment \in Unlaid \cup {Const} : memory'[segment] = memory[segment]
    BY <1>2, <2>1, OthersKeepUnlaid
  <2>3. \A segment \in Unlaid \cup {Const} :
          nativeMemory'[segment] = nativeMemory[segment]
    BY <1>3, <2>1, OthersKeepUnlaid
  <2>4. QED
    BY <2>2, <2>3
<1>5. UnlaidEmpty'
  BY <1>1, <1>4 DEF UnlaidEmpty
<1>6. Bound'
  BY <1>1, <1>2, <1>3, <1>4, <1>5 DEF Bound
<1>7. ClocksMatch'
  BY <1>1, <1>2, <1>3 DEF ClocksMatch
<1>8. ASSUME apart' = {}
      PROVE  DeadlinesMatch' /\ SameEnd'
  <2>1. apart = {}
    BY <1>8
  <2>2. DeadlinesMatch /\ SameEnd
    BY <1>1, <2>1, Agreeing
  <2>3. SameState
    BY <1>1, <2>2 DEF SameEnd
  <2>4. NativeStack = OperandStack
    BY <2>3 DEF SameState, NativeStack, OperandStack
  <2>5. native.defined /\ native.stack = outcome.stack
    BY <1>8, <2>4
  <2>6. SameState' /\ nativeMode' = "host" /\ mode' = "host"
    BY <1>2, <1>3, <2>3, <2>5 DEF SameState
  <2>7. SameEnd'
    BY <2>6 DEF SameEnd
  <2>8. DeadlinesMatch'
    BY <1>2, <1>3, <2>2 DEF DeadlinesMatch
  <2>9. QED
    BY <2>7, <2>8
<1>9. QED
  BY <1>6, <1>7, <1>8, RelationFrom

LEMMA HostOperands ==
  ASSUME TypeInv, NEW kind \in HostKinds
  PROVE  /\ kind \in Kind /\ KindSize(kind) \in Nat
         /\ OperandStack \in StackBytes /\ Len(OperandStack) \in Nat
<1>1. kind \in Kind /\ memory \in Memory
  BY VMAssumption DEF TypeInv
<1>2. KindSize(kind) \in Nat
  BY <1>1, KindSizes
<1>3. OperandStack \in StackBytes
  BY <1>1 DEF OperandStack, Memory, StackBytes, Segment, Stack
<1>4. Len(OperandStack) \in Nat
  BY <1>3 DEF StackBytes
<1>5. QED
  BY <1>1, <1>2, <1>3, <1>4

LEMMA HostPushesRelates ==
  ASSUME TypeInv, NativeInv, RelationInv, NEW kind \in HostKinds,
         NEW value \in HostValues, HostPushes(kind, value)
  PROVE  RelationInv'
<1> DEFINE outcome == IF KindSize(kind) = 0
                        THEN Records("InvalidValueKind", OperandStack)
                        ELSE Pushed(OperandStack, Encode(KindSize(kind), value))
           native == NativePushed(NativeStack, kind, value)
<1>1. /\ mode = "host" /\ HostStackOperation(outcome) /\ NativeHostStack(native)
      /\ apart \subseteq apart' /\ oneFirst' = oneFirst
  BY DEF HostPushes, HostPush, NativeHostPush
<1>2. ASSUME apart' = {}, NativeStack = OperandStack
      PROVE  native.defined /\ native.stack = outcome.stack
  <2>1. KindSize(kind) # 0 /\ ~ (Len(OperandStack) + KindSize(kind) > StackCapacity)
    BY <1>2 DEF HostPushes
  <2>2. /\ kind \in Kind /\ KindSize(kind) \in Nat
        /\ OperandStack \in StackBytes /\ Len(OperandStack) \in Nat
    BY HostOperands
  <2>3. StackCapacity \in Nat
    BY VMAssumption
  <2>4. KindSize(kind) > 0 /\ Len(OperandStack) + KindSize(kind) <= StackCapacity
    BY <2>1, <2>2, <2>3
  <2>5. native = Defined(OperandStack \o Encode(KindSize(kind), value))
    BY <1>2, <2>4 DEF NativePushed, When
  <2>6. Mirrors(native, Pushed(OperandStack, Encode(KindSize(kind), value)))
    BY <1>2, <2>2, <2>4, MirrorsPushed
  <2>7. outcome = Pushed(OperandStack, Encode(KindSize(kind), value))
    BY <2>1
  <2>8. QED
    BY <2>5, <2>6, <2>7 DEF Mirrors, Defined
<1> HIDE DEF outcome, native
<1>3. QED
  BY <1>1, <1>2, HostStackRelates

LEMMA HostPopsRelates ==
  ASSUME TypeInv, NativeInv, RelationInv, NEW kind \in HostKinds, HostPops(kind)
  PROVE  RelationInv'
<1> DEFINE outcome == IF KindSize(kind) = 0
                        THEN Records("InvalidValueKind", OperandStack)
                      ELSE IF Len(OperandStack) < KindSize(kind)
                        THEN Records("StackUnderflow", OperandStack)
                      ELSE Done(Truncate(OperandStack, KindSize(kind)))
           native == NativePopped(NativeStack, kind)
<1>1. /\ mode = "host" /\ HostStackOperation(outcome) /\ NativeHostStack(native)
      /\ apart \subseteq apart' /\ oneFirst' = oneFirst
  BY DEF HostPops, HostPop, NativeHostPop, NativePopped
<1>2. ASSUME apart' = {}, NativeStack = OperandStack
      PROVE  native.defined /\ native.stack = outcome.stack
  <2>1. KindSize(kind) # 0 /\ ~ (Len(OperandStack) < KindSize(kind))
    BY <1>2 DEF HostPops
  <2>2. KindSize(kind) \in Nat /\ Len(OperandStack) \in Nat
    BY HostOperands
  <2>3. KindSize(kind) > 0 /\ Len(OperandStack) >= KindSize(kind)
    BY <2>1, <2>2
  <2>4. native = Defined(Truncate(OperandStack, KindSize(kind)))
    BY <1>2, <2>3 DEF NativePopped, When
  <2>5. outcome = Done(Truncate(OperandStack, KindSize(kind)))
    BY <2>1
  <2>6. QED
    BY <2>4, <2>5 DEF Defined, Done
<1> HIDE DEF outcome, native
<1>3. QED
  BY <1>1, <1>2, HostStackRelates

LEMMA HostReturnsRelates ==
  ASSUME TypeInv, NativeInv, RelationInv, HostReturns
  PROVE  RelationInv'
<1>1. /\ Bound /\ ClocksMatch /\ apart' = apart /\ oneFirst' = oneFirst
      /\ mode # "script" /\ nativeMode # "script"
  BY DEF HostReturns, apartVars, RelationInv
<1>2. /\ program' = program /\ running' = running /\ pc' = pc
      /\ memory' = memory /\ callFrames' = callFrames /\ frameTop' = frameTop
      /\ hasDispatcher' = hasDispatcher /\ currentTime' = currentTime
      /\ tickTime' = tickTime /\ timers' = timers /\ result' = result
      /\ mode' = IF mode = "host" THEN "script" ELSE mode
  BY DEF HostReturns, HostReturn, vars, vmVars, callVars, timeVars
<1>3. /\ nativeProgram' = nativeProgram /\ nativeDispatcher' = nativeDispatcher
      /\ nativeTime' = nativeTime /\ nativeTimers' = nativeTimers
      /\ nativeMemory' = nativeMemory /\ nativePC' = nativePC
      /\ nativeFrames' = nativeFrames /\ nativeFrameTop' = nativeFrameTop
      /\ nativeMode' = IF nativeMode = "host" THEN "script" ELSE nativeMode
  BY DEF HostReturns, NativeReturn, nativeVars, nativeBinding, nativeTimeVars,
         nativeCallVars
<1>4. Bound'
  BY <1>1, <1>2, <1>3 DEF Bound, UnlaidEmpty
<1>5. ClocksMatch'
  BY <1>1, <1>2, <1>3 DEF ClocksMatch
<1>6. apart' = {} => DeadlinesMatch'
  BY <1>1, <1>2, <1>3, Agreeing DEF DeadlinesMatch
<1>7. ASSUME apart' = {}, nativeProgram' # NoProgram
      PROVE  SameEnd'
  <2>1. SameEnd
    BY <1>1, <1>3, <1>7, Agreeing
  <2>2. SameState <=> SameState'
    BY <1>2, <1>3 DEF SameState
  <2>3. QED
    BY <1>1, <1>2, <1>3, <2>1, <2>2 DEF SameEnd
<1>8. QED
  BY <1>4, <1>5, <1>6, <1>7, RelationFrom

(* Both load the program: no timer of the native VM survives.              *)
LEMMA LoadsBothRelates ==
  ASSUME TypeInv, NativeInv, RelationInv, NEW p \in Programs, LoadsBoth(p)
  PROVE  RelationInv'
<1>1. /\ Bound /\ ClocksMatch /\ UnlaidEmpty /\ nativeDispatcher = hasDispatcher
      /\ mode = "idle" /\ nativeMode = "idle" /\ p # NoProgram
      /\ apart' = apart \cap {"time"} /\ oneFirst' = oneFirst
  BY VMAssumption DEF LoadsBoth, BothIdle, RelationInv, Bound
<1>2. /\ mode' = "idle" /\ program' = p /\ result' = "OK"
      /\ hasDispatcher' = hasDispatcher /\ currentTime' = currentTime
      /\ memory' = [memory EXCEPT ![BSS] = Resized(@, p.bssByteSize),
                                  ![Data] = Resized(@, p.dataByteSize),
                                  ![Const] = p.constData]
  BY <1>1 DEF LoadsBoth, LoadProgram, Returns, timeVars
<1>3. /\ nativeMode' = "idle" /\ nativeProgram' = p /\ nativeTimers' = NoTimers
      /\ nativeDispatcher' = nativeDispatcher /\ nativeTime' = nativeTime
      /\ nativeMemory' = [nativeMemory EXCEPT ![BSS] = Zeroes(p.bssByteSize),
                                              ![Data] = p.dataData,
                                              ![Const] = p.constData]
  BY <1>1 DEF LoadsBoth, NativeLoad
<1>4. nativeMemory'[Const] = p.constData /\ UnlaidEmpty'
  <2>1. memory \in [Segment -> Seq(Byte)] /\ nativeMemory \in [Segment -> Seq(Byte)]
    BY DEF TypeInv, NativeInv, Memory
  <2>2. Unlaid \subseteq Segment \ {BSS, Data, Const} /\ Const \in Segment
    BY DEF Unlaid, Segment, BSS, Data, Const, Extern
  <2>3. \A segment \in Unlaid : memory'[segment] = memory[segment]
    BY <1>2, <2>1, <2>2
  <2>4. \A segment \in Unlaid : nativeMemory'[segment] = nativeMemory[segment]
    BY <1>3, <2>1, <2>2
  <2>5. nativeMemory'[Const] = p.constData
    BY <1>3, <2>1, <2>2
  <2>6. QED
    BY <1>1, <2>3, <2>4, <2>5 DEF UnlaidEmpty
<1>5. Bound'
  BY <1>1, <1>2, <1>3, <1>4 DEF Bound
<1>6. ClocksMatch'
  BY <1>1, <1>2, <1>3 DEF ClocksMatch
<1>7. DeadlinesMatch'
  BY <1>3 DEF DeadlinesMatch, NoTimers
<1>8. SameEnd'
  BY <1>2, <1>3 DEF SameEnd
<1>9. QED
  BY <1>5, <1>6, <1>7, <1>8, RelationFrom

(* Go between runs while no native VM is in use: with its own clock, and   *)
(* with timers that the native one will not have.                          *)
LEMMA UnusedRelates ==
  ASSUME RelationInv, nativeProgram = NoProgram, UNCHANGED << nativeVars, apartVars >>,
         hasDispatcher' = hasDispatcher, mode' # "idle" => running' = program',
         \A segment \in Unlaid : memory[segment] = << >> => memory'[segment] = << >>
  PROVE  RelationInv'
<1>1. /\ nativeMode = "idle" /\ nativeTime.ticks = 0 /\ nativeTimers = NoTimers
      /\ UnlaidEmpty /\ nativeDispatcher = hasDispatcher
  BY DEF RelationInv, Bound
<1>2. /\ nativeProgram' = nativeProgram /\ nativeDispatcher' = nativeDispatcher
      /\ nativeTime' = nativeTime /\ nativeTimers' = nativeTimers
      /\ nativeMode' = nativeMode /\ nativeMemory' = nativeMemory
  BY DEF nativeVars, nativeBinding, nativeTimeVars
<1>3. Bound'
  BY <1>1, <1>2 DEF Bound, UnlaidEmpty
<1>4. ClocksMatch' /\ DeadlinesMatch'
  BY <1>1, <1>2 DEF ClocksMatch, DeadlinesMatch, NoTimers
<1>5. QED
  BY <1>2, <1>3, <1>4, RelationFrom

LEMMA LoadsGoRelates ==
  ASSUME TypeInv, NativeInv, RelationInv, NEW p \in Programs, LoadsGo(p)
  PROVE  RelationInv'
<1>1. /\ nativeProgram = NoProgram /\ UNCHANGED << nativeVars, apartVars >>
      /\ mode = "idle" /\ mode' = mode /\ hasDispatcher' = hasDispatcher
      /\ \/ memory' = memory
         \/ memory' = [memory EXCEPT ![BSS] = Resized(@, p.bssByteSize),
                                     ![Data] = Resized(@, p.dataByteSize),
                                     ![Const] = p.constData]
  BY DEF LoadsGo, BothIdle, Unused, LoadProgram
<1>2. \A segment \in Unlaid : memory'[segment] = memory[segment]
  <2>1. memory \in [Segment -> Seq(Byte)]
    BY DEF TypeInv, Memory
  <2>2. Unlaid \subseteq Segment \ {BSS, Data, Const}
    BY DEF Unlaid, Segment, BSS, Data, Const, Extern
  <2>3. QED
    BY <1>1, <2>1, <2>2
<1>3. QED
  BY <1>1, <1>2, UnusedRelates

LEMMA RegistersRelates ==
  ASSUME TypeInv, NativeInv, RelationInv, Registers
  PROVE  RelationInv'
<1>1. /\ Bound /\ ClocksMatch /\ mode = "idle" /\ nativeMode = "idle"
      /\ apart' = apart /\ oneFirst' = oneFirst
  BY DEF Registers, BothIdle, RelationInv, apartVars
<1>2. /\ mode' = mode /\ program' = program /\ memory' = memory /\ result' = result
      /\ hasDispatcher' /\ hasDispatcher' \in BOOLEAN /\ timers' = timers
      /\ currentTime' = currentTime /\ tickTime' = tickTime
  BY DEF Registers, RegisterExternDispatcher, timeVars
<1>3. /\ nativeMode' = nativeMode /\ nativeProgram' = nativeProgram
      /\ nativeMemory' = nativeMemory /\ nativeDispatcher' = TRUE
      /\ nativeTime' = nativeTime /\ nativeTimers' = nativeTimers
  BY DEF Registers, NativeRegister, nativeTimeVars
<1>4. nativeDispatcher' = hasDispatcher'
  BY <1>2, <1>3
<1>5. Bound'
  BY <1>1, <1>2, <1>3, <1>4 DEF Bound, UnlaidEmpty
<1>6. ClocksMatch'
  BY <1>1, <1>2, <1>3 DEF ClocksMatch
<1>7. apart' = {} => DeadlinesMatch'
  BY <1>1, <1>2, <1>3, Agreeing DEF DeadlinesMatch
<1>8. apart' = {} /\ nativeProgram' # NoProgram => SameEnd'
  BY <1>1, <1>2, <1>3, Agreeing DEF SameEnd
<1>9. QED
  BY <1>5, <1>6, <1>7, <1>8, RelationFrom

LEMMA ReplacesRelates ==
  ASSUME TypeInv, NativeInv, RelationInv, ReplacesNative
  PROVE  RelationInv'
<1>1. /\ mode' = mode /\ program' = program /\ memory' = memory
      /\ hasDispatcher' = hasDispatcher /\ mode = "idle" /\ UnlaidEmpty
  BY DEF ReplacesNative, vars, vmVars, RelationInv, Bound
<1>2. /\ nativeMode' = "idle" /\ nativeProgram' = NoProgram
      /\ nativeMemory' = FreshMemory /\ nativeDispatcher' = hasDispatcher
      /\ nativeTime' = FreshTime /\ nativeTimers' = NoTimers
  BY DEF ReplacesNative
<1>3. nativeTime'.ticks = 0
  BY <1>2 DEF FreshTime
<1>4. \A segment \in Unlaid : FreshMemory[segment] = << >>
  BY DEF FreshMemory, Unlaid, Segment, Frame, Extern
<1>5. Bound'
  BY <1>1, <1>2, <1>3, <1>4 DEF Bound, UnlaidEmpty
<1>6. ClocksMatch' /\ DeadlinesMatch'
  BY <1>2, <1>3 DEF ClocksMatch, DeadlinesMatch, NoTimers
<1>7. QED
  BY <1>2, <1>5, <1>6, RelationFrom

(* Go accepts the entry function exactly when the native VM does.          *)
LEMMA EntryAccepted ==
  ASSUME NativeInv, nativeProgram # NoProgram
  PROVE  /\ ResetStatus(nativeProgram) = "OK" <=> ~ EntryTakesParameters
         /\ nativeProgram.functions[nativeProgram.entryPoint + 1] \in Function
<1> DEFINE p == nativeProgram
           fn == p.functions[p.entryPoint + 1]
<1>1. /\ p \in LinkedProgram /\ NativeAccepts(p) /\ p.entryPoint \in Nat
      /\ fn \in Function
  BY BoundProgram
<1>2. ~ (p.entryPoint >= Len(p.functions))
  <2>1. p.functions \in Seq(Function) /\ p.entryPoint < Len(p.functions)
    BY <1>1 DEF LinkedProgram, NativeAccepts
  <2>2. QED
    BY <1>1, <2>1
<1>3. EntryTakesParameters <=> fn.paramCount # 0
  BY DEF EntryTakesParameters
<1>4. fn.paramCount = 0 => EnterStatus(p, p.entryPoint, << >>, 0, 0) = "OK"
  <2>1. << >> \in Seq(Byte) /\ 0 \in Nat
    OBVIOUS
  <2>2. fn.paramCount = 0 => NativeEnterable(p, p.entryPoint, << >>, 0, 0)
    BY <1>1, <2>1, EntryEnterable
  <2>3. QED
    BY <1>1, <2>1, <2>2, EnterMirrors
<1>5. ResetStatus(p) = IF fn.paramCount # 0 THEN "InvalidDescriptor"
                       ELSE EnterStatus(p, p.entryPoint, << >>, 0, 0)
  BY <1>2 DEF ResetStatus
<1> HIDE DEF fn
<1>6. QED
  BY <1>1, <1>3, <1>4, <1>5 DEF fn

(* A restart touches no segment that a program does not lay out, and no    *)
(* constant.                                                               *)
LEMMA EnteredKeeps ==
  ASSUME NEW m, DOMAIN m = Segment, NEW p, NEW fn, NEW base
  PROVE  \A segment \in Unlaid \cup {Const} :
           Entered(p, fn, m, base)[segment] = m[segment]
BY UnlaidSegments DEF Entered

LEMMA RestartKeeps ==
  ASSUME NativeInv, NEW modeAfter, NativeRestart(modeAfter)
  PROVE  \A segment \in Unlaid \cup {Const} :
           nativeMemory'[segment] = nativeMemory[segment]
<1>1. /\ RestartedMemory \in Memory
      /\ \A segment \in Segment \ {Stack, Frame} :
           RestartedMemory[segment] = nativeMemory[segment]
  BY RestartedMemoryType DEF NativeInv
<1>2. DOMAIN RestartedMemory = Segment
  BY <1>1 DEF Memory
<1>3. \A segment \in Unlaid \cup {Const} :
        nativeMemory'[segment] = RestartedMemory[segment]
  BY <1>2, EnteredKeeps DEF NativeRestart, NativeEnter
<1>4. QED
  BY <1>1, <1>3, UnlaidSegments

LEMMA ResetMemoryKeeps ==
  ASSUME memory \in Memory, NEW p
  PROVE  /\ DOMAIN ResetMemory(p) = Segment
         /\ \A segment \in Unlaid : ResetMemory(p)[segment] = memory[segment]
<1>1. memory \in [Segment -> Seq(Byte)]
  BY DEF Memory
<1>2. Unlaid \subseteq Segment \ {BSS, Data, Frame, Stack}
  BY DEF Unlaid, Segment, BSS, Data, Frame, Stack, Extern
<1>3. QED
  BY <1>1, <1>2 DEF ResetMemory

LEMMA ResetStateKeeps ==
  ASSUME TypeInv, ResetState
  PROVE  \A segment \in Unlaid : memory'[segment] = memory[segment]
<1> DEFINE m == ResetMemory(program)
<1>1. DOMAIN m = Segment /\ \A segment \in Unlaid : m[segment] = memory[segment]
  BY ResetMemoryKeeps DEF TypeInv
<1>2. \/ memory' = m
      \/ memory' = Entered(program, program.functions[program.entryPoint + 1], m, 0)
  BY DEF ResetState
<1> HIDE DEF m
<1>3. \A segment \in Unlaid : memory'[segment] = m[segment]
  BY <1>1, <1>2, EnteredKeeps
<1>4. QED
  BY <1>1, <1>3

(* With initial globals both restart with the same memory.                 *)
LEMMA SameRestart ==
  ASSUME TypeInv, LoadedSegments, NativeInv, nativeProgram # NoProgram,
         Bound, GlobalsAreInitial
  PROVE  RestartedMemory = ResetMemory(program)
<1> DEFINE m == ResetMemory(program)
           r == RestartedMemory
<1>1. /\ program = nativeProgram /\ program \in LinkedProgram
      /\ nativeMemory[Const] = program.constData /\ UnlaidEmpty
  BY BoundProgram DEF Bound
<1>2. /\ memory \in Memory /\ nativeMemory \in Memory
      /\ memory \in [Segment -> Seq(Byte)]
  BY DEF TypeInv, NativeInv, Memory
<1>3. /\ Len(memory[BSS]) = program.bssByteSize
      /\ Len(memory[Data]) = Len(program.dataData)
      /\ memory[Const] = program.constData
  BY <1>1 DEF LoadedSegments
<1>4. /\ m[BSS] = Zeroes(program.bssByteSize)
      /\ m[Frame] = Zeroes(FrameCapacity) /\ m[Stack] = << >>
      /\ m[Const] = program.constData /\ DOMAIN m = Segment
  BY <1>1, <1>2, <1>3, ResetMemorySegments
<1>5. m[Data] = program.dataData
  <2>1. program.dataData \in Seq(Byte)
    BY <1>1 DEF LinkedProgram
  <2>2. m[Data] = [i \in 1 .. Len(program.dataData) |->
                     IF i <= Len(program.dataData) THEN program.dataData[i]
                     ELSE memory[Data][i]]
    BY <1>1, <1>2, <1>3, ResetMemorySegments, Zenon
  <2>3. m[Data] = [i \in 1 .. Len(program.dataData) |-> program.dataData[i]]
    BY <2>1, <2>2
  <2>4. QED
    BY <2>1, <2>3
<1>6. \A segment \in Unlaid : m[segment] = memory[segment]
  BY <1>2, ResetMemoryKeeps
<1>7. /\ r \in Memory /\ r[Stack] = << >> /\ r[Frame] = Zeroes(FrameCapacity)
      /\ \A segment \in Segment \ {Stack, Frame} : r[segment] = nativeMemory[segment]
  BY <1>2, RestartedMemoryType
<1>8. r \in [Segment -> Seq(Byte)]
  BY <1>7 DEF Memory
<1>9. m = [segment \in Segment |-> m[segment]]
  BY <1>2, <1>4 DEF ResetMemory
<1> HIDE DEF m, r
<1>10. Segment = Unlaid \cup {BSS, Data, Const, Frame, Stack}
  BY DEF Unlaid, Segment, BSS, Data, Const, Frame, Stack, Extern
<1>11. r[BSS] = m[BSS] /\ r[Data] = m[Data] /\ r[Const] = m[Const]
  BY <1>1, <1>4, <1>5, <1>7, GlobalSegments, UnlaidSegments DEF GlobalsAreInitial
<1>12. \A segment \in Unlaid : r[segment] = m[segment]
  BY <1>1, <1>6, <1>7, UnlaidSegments DEF UnlaidEmpty
<1>13. \A segment \in Segment : r[segment] = m[segment]
  BY <1>4, <1>7, <1>10, <1>11, <1>12
<1>14. QED
  BY <1>8, <1>9, <1>13 DEF m, r

LEMMA ResetsBothRelates ==
  ASSUME TypeInv, NativeInv, RelationInv, ResetsBoth
  PROVE  RelationInv'
<1>1. /\ Bound /\ ClocksMatch /\ UnlaidEmpty /\ apart' = apart /\ oneFirst' = oneFirst
      /\ mode = "idle" /\ nativeMode = "idle" /\ nativeProgram # NoProgram
      /\ program = nativeProgram /\ program # NoProgram
      /\ nativeDispatcher = hasDispatcher
  BY DEF ResetsBoth, BothIdle, NativeReset, RelationInv, Bound, apartVars
<1>2. /\ mode' = "idle" /\ program' = program /\ hasDispatcher' = hasDispatcher
      /\ currentTime' = currentTime /\ timers' = timers /\ ResetState
      /\ result' = ResetStatus(program)
  BY <1>1 DEF ResetsBoth, Reset, ResetVM, Returns, timeVars
<1>3. /\ nativeProgram' = nativeProgram /\ nativeDispatcher' = nativeDispatcher
      /\ nativeTime' = nativeTime /\ nativeTimers' = nativeTimers
  BY DEF ResetsBoth, NativeReset, Break, nativeBinding, nativeTimeVars
<1>4. /\ \A segment \in Unlaid : memory'[segment] = memory[segment]
      /\ \A segment \in Unlaid \cup {Const} :
           nativeMemory'[segment] = nativeMemory[segment]
  <2>1. \/ nativeMemory' = nativeMemory
        \/ \E modeAfter : NativeRestart(modeAfter)
    BY DEF ResetsBoth, NativeReset, Break
  <2>2. QED
    BY <1>2, <2>1, ResetStateKeeps, RestartKeeps
<1>5. nativeMode' = IF EntryTakesParameters THEN "broken" ELSE "idle"
  BY DEF ResetsBoth, NativeReset, Break, NativeRestart
<1>6. UnlaidEmpty'
  BY <1>1, <1>4 DEF UnlaidEmpty
<1>7. Bound'
  BY <1>1, <1>2, <1>3, <1>4, <1>6 DEF Bound
<1>8. ClocksMatch'
  BY <1>1, <1>2, <1>3, <1>5 DEF ClocksMatch
<1>9. apart' = {} => DeadlinesMatch'
  BY <1>1, <1>2, <1>3, Agreeing DEF DeadlinesMatch
<1>10. SameEnd'
  <2>1. ResetStatus(program) = "OK" <=> ~ EntryTakesParameters
    BY <1>1, EntryAccepted
  <2>2. QED
    BY <1>2, <1>5, <2>1 DEF SameEnd
<1>11. QED
  BY <1>7, <1>8, <1>9, <1>10, RelationFrom

LEMMA RunsGoRelates ==
  ASSUME TypeInv, NativeInv, RelationInv, NEW now, RunsGo(now)
  PROVE  RelationInv'
<1>1. /\ nativeProgram = NoProgram /\ UNCHANGED << nativeVars, apartVars >>
      /\ hasDispatcher' = hasDispatcher /\ program' = program /\ mode = "idle"
  BY DEF RunsGo, BothIdle, Unused, RunLoaded
<1>2. mode' # "idle" => running' = program'
  BY <1>1 DEF RunsGo, RunLoaded
<1>3. memory' = memory \/ ResetState
  BY DEF RunsGo, RunLoaded
<1>4. \A segment \in Unlaid : memory'[segment] = memory[segment]
  BY <1>3, ResetStateKeeps
<1>5. QED
  BY <1>1, <1>2, <1>4, UnusedRelates

(* A run that starts in Go starts with the clocks alike, and from the same *)
(* memory if the globals are initial ones.                                 *)
LEMMA SameTick ==
  ASSUME NativeInv, TypeInv, ClocksMatch, NEW now \in Times, BeginTick(now),
         nativeTime' = TickedAt(nativeTime, now), "time" \notin apart
  PROVE  /\ nativeTime'.current = currentTime'
         /\ (hasCurrentTime <=> nativeTime.ticks # 0) =>
              nativeTime'.tickTime = tickTime'
<1>1. /\ currentTime' = now
      /\ tickTime' = IF hasCurrentTime THEN now - currentTime ELSE 0
      /\ ~ (hasCurrentTime /\ now < currentTime)
  BY DEF BeginTick, TimeGoesBack
<1>2. /\ nativeTime'.current = now
      /\ nativeTime'.tickTime = IF nativeTime.ticks = 0 THEN 0
                                ELSE (now - nativeTime.current) % (MaxTime + 1)
  BY DEF TickedAt
<1>3. currentTime \in 0 .. MaxTime /\ now \in 0 .. MaxTime /\ MaxTime \in Nat
  BY TimeAssumption DEF TypeInv, TimeTypeOK
<1>4. ASSUME hasCurrentTime, nativeTime.ticks # 0
      PROVE  nativeTime'.tickTime = tickTime'
  <2>1. nativeTime.current = currentTime
    BY <1>4 DEF ClocksMatch
  <2>2. now - currentTime \in 0 .. MaxTime
    BY <1>1, <1>3, <1>4
  <2>3. (now - currentTime) % (MaxTime + 1) = now - currentTime
    BY <1>3, <2>2
  <2>4. QED
    BY <1>1, <1>2, <1>4, <2>1, <2>3
<1>5. QED
  BY <1>1, <1>2, <1>4

LEMMA RunsBothRelates ==
  ASSUME TypeInv, LoadedSegments, NativeInv, RelationInv, NEW now \in Times,
         RunsBoth(now)
  PROVE  RelationInv'
<1>1. /\ Bound /\ ClocksMatch /\ UnlaidEmpty
      /\ mode = "idle" /\ nativeMode = "idle" /\ nativeProgram # NoProgram
      /\ program = nativeProgram /\ program # NoProgram
      /\ nativeDispatcher = hasDispatcher
      /\ oneFirst' = (hasCurrentTime # (nativeTime.ticks # 0))
  BY DEF RunsBoth, BothIdle, NativeRun, RelationInv, Bound
<1>2. /\ apart \subseteq apart'
      /\ "globals" \notin apart' => GlobalsAreInitial
      /\ "time" \notin apart' => ~ TimeGoesBack(now)
  BY DEF RunsBoth
<1>3. /\ program' = program /\ hasDispatcher' = hasDispatcher /\ timers' = timers
      /\ ResetState /\ (mode' # "idle" => running' = program)
  BY <1>1 DEF RunsBoth, RunLoaded, BeginTick, timeVars
<1>4. /\ nativeProgram' = nativeProgram /\ nativeDispatcher' = nativeDispatcher
      /\ nativeTimers' = nativeTimers
  BY DEF RunsBoth, NativeRun, Break, nativeBinding, nativeTimeVars
<1>5. ResetStatus(program) = "OK" <=> ~ EntryTakesParameters
  BY <1>1, EntryAccepted
<1>6. \/ /\ EntryTakesParameters /\ nativeMode' = "broken"
         /\ nativeTime' = nativeTime /\ nativeMemory' = nativeMemory
      \/ /\ ~ EntryTakesParameters /\ NativeRestart("script")
         /\ nativeTime' = TickedAt(nativeTime, now)
  BY DEF RunsBoth, NativeRun, NativeRestart, Break, nativeTimeVars
<1>7. Bound'
  <2>1. \A segment \in Unlaid \cup {Const} :
          nativeMemory'[segment] = nativeMemory[segment]
    BY <1>6, RestartKeeps
  <2>2. \A segment \in Unlaid : memory'[segment] = memory[segment]
    BY <1>3, ResetStateKeeps
  <2>3. UnlaidEmpty'
    BY <1>1, <2>1, <2>2 DEF UnlaidEmpty
  <2>4. QED
    BY <1>1, <1>3, <1>4, <2>1, <2>3 DEF Bound
<1>8. apart' = {} => DeadlinesMatch'
  BY <1>2, <1>3, <1>4, Agreeing DEF DeadlinesMatch
<1>9. CASE EntryTakesParameters
  <2>1. /\ nativeMode' = "broken" /\ nativeTime' = nativeTime
        /\ mode' = "idle" /\ result' # "OK" /\ currentTime' = currentTime
    BY <1>1, <1>5, <1>6, <1>9 DEF RunsBoth, RunLoaded, Returns, timeVars
  <2>2. ClocksMatch' /\ SameEnd'
    BY <1>1, <1>2, <2>1 DEF ClocksMatch, SameEnd
  <2>3. QED
    BY <1>7, <1>8, <2>2, RelationFrom
<1>10. CASE ~ EntryTakesParameters
  <2>1. /\ NativeRestart("script") /\ nativeMode' = "script"
        /\ nativeTime' = TickedAt(nativeTime, now)
    BY <1>6, <1>10 DEF NativeRestart
  <2>2. "time" \notin apart' => BeginTick(now) /\ mode' = "script"
    BY <1>1, <1>2, <1>5, <1>10 DEF RunsBoth, RunLoaded
  <2>3. ClocksMatch'
    <3>1. ASSUME "time" \notin apart'
          PROVE  /\ nativeTime'.current = currentTime'
                 /\ ~ oneFirst' => nativeTime'.tickTime = tickTime'
      <4>1. BeginTick(now) /\ "time" \notin apart
        BY <1>2, <2>2, <3>1
      <4>2. hasCurrentTime \in BOOLEAN
        BY DEF TypeInv, TimeTypeOK
      <4>3. ~ oneFirst' => (hasCurrentTime <=> nativeTime.ticks # 0)
        BY <1>1, <4>2
      <4>4. QED
        BY <1>1, <2>1, <4>1, <4>3, SameTick
    <3>2. QED
      BY <3>1 DEF ClocksMatch
  <2>4. ASSUME apart' = {}
        PROVE  SameEnd'
    <3> DEFINE fn == program.functions[program.entryPoint + 1]
    <3>1. ResetMemory(program) = RestartedMemory
      BY <1>1, <1>2, <2>4, SameRestart
    <3>2. /\ memory' = Entered(program, fn, ResetMemory(program), 0)
          /\ callFrames' = Append(<< >>, Activation(fn, 0, 0))
          /\ frameTop' = 0 + fn.frameByteSize /\ pc' = fn.bodyAddress
      BY <1>3, <1>5, <1>10 DEF ResetState, PushFrame
    <3>3. /\ nativeMemory' = Entered(program, fn, RestartedMemory, 0)
          /\ nativeFrames' = Append(<< >>, Activation(fn, 0, 0))
          /\ nativeFrameTop' = 0 + fn.frameByteSize /\ nativePC' = fn.bodyAddress
      BY <1>1, <2>1 DEF NativeRestart, NativeEnter
    <3> HIDE DEF fn
    <3>4. SameState'
      BY <3>1, <3>2, <3>3 DEF SameState
    <3>5. mode' = "script"
      BY <2>2, <2>4
    <3>6. QED
      BY <2>1, <3>4, <3>5 DEF SameEnd
  <2>5. QED
    BY <1>7, <1>8, <2>3, <2>4, RelationFrom
<1>11. QED
  BY <1>9, <1>10

LEMMA StutterRelates ==
  ASSUME RelationInv, UNCHANGED << vars, nativeVars, apartVars >>
  PROVE  RelationInv'
<1>1. /\ mode' = mode /\ program' = program /\ running' = running /\ pc' = pc
      /\ memory' = memory /\ callFrames' = callFrames /\ frameTop' = frameTop
      /\ hasDispatcher' = hasDispatcher /\ currentTime' = currentTime
      /\ tickTime' = tickTime /\ timers' = timers /\ result' = result
  BY DEF vars, vmVars, callVars, timeVars
<1>2. /\ nativeProgram' = nativeProgram /\ nativeDispatcher' = nativeDispatcher
      /\ nativeTime' = nativeTime /\ nativeTimers' = nativeTimers
      /\ nativeMemory' = nativeMemory /\ nativePC' = nativePC
      /\ nativeFrames' = nativeFrames /\ nativeFrameTop' = nativeFrameTop
      /\ nativeMode' = nativeMode /\ apart' = apart /\ oneFirst' = oneFirst
  BY DEF nativeVars, nativeBinding, nativeTimeVars, nativeCallVars, apartVars
<1>3. Bound' /\ ClocksMatch' /\ (DeadlinesMatch => DeadlinesMatch')
  BY <1>1, <1>2
     DEF RelationInv, Bound, ClocksMatch, DeadlinesMatch, UnlaidEmpty
<1>4. SameEnd => SameEnd'
  BY <1>1, <1>2 DEF SameEnd, SameState
<1>5. QED
  BY <1>2, <1>3, <1>4, Agreeing, RelationFrom

LEMMA RelationInit == BothInit => RelationInv
<1> SUFFICES ASSUME BothInit PROVE RelationInv
  OBVIOUS
<1>1. \A segment \in Unlaid :
        FreshMemory[segment] = << >>
  BY DEF FreshMemory, Unlaid, Segment, Frame, Extern
<1>2. UnlaidEmpty
  BY <1>1 DEF UnlaidEmpty, BothInit, NativeInit, Init, VMInit, Unlaid, Segment, Frame, Extern
<1>3. nativeTime.ticks = 0 /\ nativeProgram = NoProgram /\ nativeMode = "idle"
        /\ nativeTimers = NoTimers /\ nativeDispatcher = FALSE
        /\ mode = "idle" /\ hasDispatcher = FALSE
  BY DEF BothInit, NativeInit, FreshTime, Init, VMInit
<1>4. Bound /\ ClocksMatch /\ DeadlinesMatch
  BY <1>2, <1>3 DEF Bound, ClocksMatch, DeadlinesMatch, NoTimers
<1>5. QED
  BY <1>3, <1>4 DEF RelationInv, TimersMatch, RuntimesAgree

LEMMA RelationStep ==
  TypeInv /\ LoadedSegments /\ NativeInv /\ RelationInv
    /\ [BothNext]_<< vars, nativeVars, apartVars >> => RelationInv'
BY StepTogetherRelates, StepAloneRelates, HostPushesRelates, HostPopsRelates,
   HostReturnsRelates, LoadsBothRelates, LoadsGoRelates, RegistersRelates,
   ResetsBothRelates, RunsBothRelates, RunsGoRelates, ReplacesRelates,
   StutterRelates
   DEF BothNext

(* A script behaves the same in both machines, whatever program the host   *)
(* has loaded and whatever the instructions, until one of the six reasons  *)
(* arises: the same memory and frames at every instruction, and a native   *)
(* VM that breaks exactly when the Go one reports a fault.                 *)
THEOREM RunsAlike == BothSpec => []RuntimesAgree
<1>1. Spec => [](TypeInv /\ LoadedSegments)
  BY TypedAndLoaded
<1>2. RelationInv => RuntimesAgree
  BY DEF RelationInv
<1>3. BothSpec => []RelationInv
  BY <1>1, GoRunsAlone, NativeTyped, RelationInit, RelationStep, PTL DEF BothSpec
<1>4. QED
  BY <1>2, <1>3, PTL
=============================================================================
