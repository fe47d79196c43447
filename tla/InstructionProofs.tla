------------------------- MODULE InstructionProofs -------------------------
(***************************************************************************)
(* The clock and the timers, and what one instruction of the virtual       *)
(* machine does to the operand stack, the memory and the frames, for all   *)
(* programs and capacities: whatever the bytecode, the bytes it leaves are *)
(* bytes of the VM's own memory.                                           *)
(***************************************************************************)
EXTENDS ScriptVM, TLAPS, FiniteSetTheorems, WellFoundedInduction

-----------------------------------------------------------------------------
(* What holds of the clock and the timers for every capacity and every     *)
(* largest time.                                                           *)

(* The saturating sum of two times is a time, and never below the first. *)
LEMMA SaturatingAddRange ==
  ASSUME NEW left \in 0 .. MaxTime, NEW right \in 0 .. MaxTime
  PROVE  /\ SaturatingAdd(left, right) \in 0 .. MaxTime
         /\ SaturatingAdd(left, right) >= left
BY TimeAssumption DEF SaturatingAdd

LEMMA TimeTypeInit == TimeInit => TimeTypeOK
<1> SUFFICES ASSUME TimeInit PROVE TimeTypeOK
  OBVIOUS
<1>1. [durationMS |-> 0, endTimeMS |-> 0, active |-> FALSE] \in TimerSlot
  BY TimeAssumption DEF TimerSlot
<1>2. timers \in [TimerId -> TimerSlot]
  BY <1>1 DEF TimeInit
<1>3. currentTime \in 0 .. MaxTime /\ tickTime \in 0 .. MaxTime
  BY TimeAssumption DEF TimeInit
<1>4. hasCurrentTime \in BOOLEAN
  BY DEF TimeInit
<1>5. QED
  BY <1>2, <1>3, <1>4 DEF TimeTypeOK

LEMMA BeginTickType ==
  ASSUME TimeTypeOK, NEW now \in Times, BeginTick(now)
  PROVE  TimeTypeOK'
BY TimeAssumption DEF TimeTypeOK, BeginTick, TimeGoesBack

LEMMA TimerStartType ==
  ASSUME TimeTypeOK, NEW id \in TimerId, NEW duration \in 0 .. MaxTime,
         TimerStart(id, duration)
  PROVE  TimeTypeOK'
<1>1. SaturatingAdd(currentTime, duration) \in 0 .. MaxTime
  BY SaturatingAddRange DEF TimeTypeOK
<1>2. timers' \in [TimerId -> TimerSlot]
  BY <1>1 DEF TimeTypeOK, TimerStart, TimerSlot
<1>3. QED
  BY <1>2 DEF TimeTypeOK, TimerStart, clockVars

LEMMA TimerStopType ==
  ASSUME TimeTypeOK, NEW id \in TimerId, TimerStop(id)
  PROVE  TimeTypeOK'
BY DEF TimeTypeOK, TimerStop, TimerSlot, clockVars

LEMMA TimerResetType ==
  ASSUME TimeTypeOK, NEW id \in TimerId, TimerReset(id)
  PROVE  TimeTypeOK'
<1>1. timers[id] \in TimerSlot
  BY DEF TimeTypeOK
<1>2. SaturatingAdd(currentTime, timers[id].durationMS) \in 0 .. MaxTime
  BY <1>1, SaturatingAddRange DEF TimeTypeOK, TimerSlot
<1>3. timers' \in [TimerId -> TimerSlot]
  BY <1>1, <1>2 DEF TimeTypeOK, TimerReset, TimerSlot
<1>4. QED
  BY <1>3 DEF TimeTypeOK, TimerReset, clockVars

(* The clock and the timers keep their types under every operation of a    *)
(* host and of a script.                                                   *)
LEMMA TimeTypeStep == TimeTypeOK /\ [TimeNext]_timeVars => TimeTypeOK'
<1> SUFFICES ASSUME TimeTypeOK, [TimeNext]_timeVars
             PROVE  TimeTypeOK'
  OBVIOUS
<1>1. CASE UNCHANGED timeVars
  BY <1>1 DEF timeVars, TimeTypeOK
<1>2. ASSUME NEW now \in Times, BeginTick(now)
      PROVE  TimeTypeOK'
  BY <1>2, BeginTickType
<1>3. ASSUME NEW id \in TimerId, NEW duration \in Durations,
             TimerStart(id, duration)
      PROVE  TimeTypeOK'
  BY <1>3, TimerStartType, TimeAssumption
<1>4. ASSUME NEW id \in TimerId, TimerStop(id)
      PROVE  TimeTypeOK'
  BY <1>4, TimerStopType
<1>5. ASSUME NEW id \in TimerId, TimerReset(id)
      PROVE  TimeTypeOK'
  BY <1>5, TimerResetType
<1>6. QED
  BY <1>1, <1>2, <1>3, <1>4, <1>5 DEF TimeNext

(* Sums of times saturate and never leave the range of the code's          *)
(* integers, however often slots are started and reset.                    *)
THEOREM TimeTypeCorrect == TimeSpec => []TimeTypeOK
<1>1. TimeInit => TimeTypeOK
  BY TimeTypeInit
<1>2. TimeTypeOK /\ [TimeNext]_timeVars => TimeTypeOK'
  BY TimeTypeStep
<1>3. QED
  BY <1>1, <1>2, PTL DEF TimeSpec

(* The clock reads zero until the first run sets it. *)
ClockUnset == ~ hasCurrentTime => currentTime = 0

LEMMA ClockUnsetStep == ClockUnset /\ [TimeNext]_timeVars => ClockUnset'
BY DEF ClockUnset, TimeNext, BeginTick, TimerStart, TimerStop, TimerReset,
       clockVars, timeVars

(* The clock never goes back. *)
LEMMA ClockRises ==
  ASSUME TimeTypeOK, ClockUnset, [TimeNext]_timeVars
  PROVE  currentTime' >= currentTime
<1>1. ASSUME NEW now \in Times, BeginTick(now)
      PROVE  currentTime' >= currentTime
  BY <1>1, TimeAssumption
     DEF TimeTypeOK, ClockUnset, BeginTick, TimeGoesBack
<1>2. ASSUME UNCHANGED clockVars
      PROVE  currentTime' >= currentTime
  BY <1>2 DEF TimeTypeOK, clockVars
<1>3. QED
  BY <1>1, <1>2 DEF TimeNext, timeVars, clockVars, TimerStart, TimerStop,
                    TimerReset

(* One step of stability: a tick moves no deadline and never moves the     *)
(* clock back, so only an operation on the slot itself can end "done".     *)
LEMMA DoneStableStep ==
  TimeTypeOK /\ ClockUnset /\ [TimeNext]_timeVars =>
    [ \A id \in TimerId :
        TimerDone(id) /\ ~ TimerDone(id)' => timers[id]' # timers[id] ]_timeVars
<1> SUFFICES ASSUME TimeTypeOK, ClockUnset, [TimeNext]_timeVars,
                    NEW id \in TimerId, TimerDone(id), timers[id]' = timers[id]
             PROVE  TimerDone(id)'
  OBVIOUS
<1>1. timers[id] \in TimerSlot
  BY DEF TimeTypeOK
<1>2. currentTime' >= currentTime /\ currentTime' \in Int
  BY ClockRises, TimeTypeStep DEF TimeTypeOK
<1>3. QED
  BY <1>1, <1>2 DEF TimeTypeOK, TimerDone, TimerSlot

(* A timer that is done stays done until its own slot is operated on, for  *)
(* any number of slots and any sequence of runs.                           *)
THEOREM DoneStable == TimeSpec => DoneIsStable
<1>1. TimeInit => TimeTypeOK /\ ClockUnset
  BY TimeTypeInit DEF TimeInit, ClockUnset
<1>2. TimeTypeOK /\ ClockUnset /\ [TimeNext]_timeVars
        => TimeTypeOK' /\ ClockUnset'
  BY TimeTypeStep, ClockUnsetStep
<1>3. QED
  BY <1>1, <1>2, DoneStableStep, PTL DEF TimeSpec, DoneIsStable

-----------------------------------------------------------------------------

(* What the byte operations of SegmentMemory return: bytes, and how many.  *)

LEMMA ByteRange == \A b : b \in Byte <=> b \in Int /\ 0 <= b /\ b <= 15
BY DEF Byte, ByteBase

Word == 0 .. WordBase - 1

LEMMA WordMax == WordBase - 1 = 65535
BY DEF WordBase

LEMMA WordIsInt ==
  ASSUME NEW w \in Word
  PROVE  w \in Int /\ 0 <= w /\ w <= 65535
BY WordMax DEF Word

LEMMA IntIsWord ==
  ASSUME NEW w \in Int, 0 <= w, w <= 65535
  PROVE  w \in Word
BY WordMax DEF Word

(* A sequence built byte by byte. *)
LEMMA BytesFromFunction ==
  ASSUME NEW n \in Nat, NEW f \in [1 .. n -> Byte]
  PROVE  f \in Seq(Byte) /\ Len(f) = n
OBVIOUS

LEMMA KindSizes ==
  ASSUME NEW kind \in Kind
  PROVE  KindSize(kind) \in {0, 1, 4}
BY DEF Kind, KindSize

LEMMA EncodeBytes ==
  ASSUME NEW size \in {1, 4}, NEW value \in Int
  PROVE  Encode(size, value) \in Seq(Byte) /\ Len(Encode(size, value)) = size
<1>1. \A v \in Int : v % 16 \in Byte
  BY DEF Byte, ByteBase
<1>2. value \div 16 \in Int /\ value \div 256 \in Int /\ value \div 4096 \in Int
  OBVIOUS
<1>3. QED
  BY <1>1, <1>2 DEF Encode

LEMMA FourDigits ==
  ASSUME NEW a \in Byte, NEW b \in Byte, NEW c \in Byte, NEW d \in Byte
  PROVE  a + 16 * b + 256 * c + 4096 * d \in Word
<1>1. /\ a \in Int /\ 0 <= a /\ a <= 15
      /\ b \in Int /\ 0 <= b /\ b <= 15
      /\ c \in Int /\ 0 <= c /\ c <= 15
      /\ d \in Int /\ 0 <= d /\ d <= 15
  BY ByteRange
<1>2. /\ a + 16 * b + 256 * c + 4096 * d \in Int
      /\ 0 <= a + 16 * b + 256 * c + 4096 * d
      /\ a + 16 * b + 256 * c + 4096 * d <= 65535
  BY <1>1
<1>3. QED
  BY <1>2, IntIsWord

LEMMA DecodeRange ==
  ASSUME NEW bytes \in Seq(Byte), Len(bytes) \in {1, 4}
  PROVE  /\ Decode(bytes) \in Word
         /\ Len(bytes) = 1 => Decode(bytes) \in Byte
<1>1. CASE Len(bytes) = 1
  <2>1. bytes[1] \in Byte
    BY <1>1
  <2>2. Decode(bytes) = bytes[1]
    BY <1>1 DEF Decode
  <2>3. Decode(bytes) \in Word
    BY <2>1, <2>2, ByteRange, IntIsWord
  <2>4. QED
    BY <2>1, <2>2, <2>3
<1>2. CASE Len(bytes) = 4
  <2>1. bytes[1] \in Byte /\ bytes[2] \in Byte /\ bytes[3] \in Byte
          /\ bytes[4] \in Byte
    BY <1>2
  <2>2. Decode(bytes)
          = bytes[1] + 16 * bytes[2] + 256 * bytes[3] + 4096 * bytes[4]
    BY <1>2 DEF Decode
  <2>3. QED
    BY <1>2, <2>1, <2>2, FourDigits
<1>3. QED
  BY <1>1, <1>2

LEMMA SignedInt ==
  ASSUME NEW word \in Int
  PROVE  Signed(word) \in Int
BY DEF Signed, WordBase

LEMMA TruncateBytes ==
  ASSUME NEW s \in Seq(Byte), NEW n \in 0 .. Len(s)
  PROVE  Truncate(s, n) \in Seq(Byte) /\ Len(Truncate(s, n)) = Len(s) - n
BY DEF Truncate

LEMMA TopBytes ==
  ASSUME NEW s \in Seq(Byte), NEW n \in 0 .. Len(s)
  PROVE  Top(s, n) \in Seq(Byte) /\ Len(Top(s, n)) = n
BY DEF Top

LEMMA ReadBytesRange ==
  ASSUME NEW s \in Seq(Byte), NEW offset \in Nat, NEW n \in Nat,
         InSegment(s, offset, n)
  PROVE  ReadBytes(s, offset, n) \in Seq(Byte) /\ Len(ReadBytes(s, offset, n)) = n
BY DEF InSegment, ReadBytes

LEMMA WriteBytesRange ==
  ASSUME NEW s \in Seq(Byte), NEW offset \in Nat, NEW bytes \in Seq(Byte)
  PROVE  /\ WriteBytes(s, offset, bytes) \in Seq(Byte)
         /\ Len(WriteBytes(s, offset, bytes)) = Len(s)
<1>1. Len(s) \in Nat /\ Len(bytes) \in Nat
  OBVIOUS
<1>2. \A i \in 1 .. Len(s) :
        (IF i \in offset + 1 .. offset + Len(bytes)
           THEN bytes[i - offset] ELSE s[i]) \in Byte
  BY <1>1
<1>3. WriteBytes(s, offset, bytes) \in [1 .. Len(s) -> Byte]
  BY <1>2 DEF WriteBytes
<1>4. QED
  BY <1>1, <1>3, BytesFromFunction

LEMMA ZeroesBytes ==
  ASSUME NEW n \in Nat
  PROVE  Zeroes(n) \in Seq(Byte) /\ Len(Zeroes(n)) = n
<1>1. Zeroes(n) \in [1 .. n -> Byte]
  BY DEF Zeroes, Byte, ByteBase
<1>2. QED
  BY <1>1, BytesFromFunction

(* An address has a segment below 16 and an index within the mask. *)
LEMMA AddressParts ==
  ASSUME NEW address \in Word
  PROVE  /\ AddressSegment(address) \in 0 .. 15
         /\ AddressIndex(address) \in 0 .. AddressIndexMask
<1>1. AddressIndexMask + 1 = 4096
  BY DEF AddressIndexMask
<1>2. address \in Int /\ 0 <= address /\ address <= 65535
  BY WordIsInt
<1>3. address \div 4096 \in 0 .. 15 /\ address % 4096 \in 0 .. 4095
  BY <1>2
<1>4. QED
  BY <1>1, <1>3 DEF AddressSegment, AddressIndex, AddressIndexMask

LEMMA MakeAddressNat ==
  ASSUME NEW segment \in Nat, NEW index \in Nat
  PROVE  MakeAddress(segment, index) \in Nat
BY DEF MakeAddress, AddressIndexMask

-----------------------------------------------------------------------------

StackBytes == { s \in Seq(Byte) : Len(s) <= StackCapacity }
Outcome == [status : Status, stack : StackBytes, sets : BOOLEAN]

-----------------------------------------------------------------------------
(* What instructions do to the stack is typed. *)

LEMMA OutcomeMade ==
  ASSUME NEW status \in Status, NEW s \in StackBytes
  PROVE  Records(status, s) \in Outcome /\ Sets(status, s) \in Outcome
BY DEF Records, Sets, Outcome

LEMMA DoneMade ==
  ASSUME NEW s \in StackBytes
  PROVE  Done(s) \in Outcome
BY DEF Done, Outcome, Status

LEMMA PushedType ==
  ASSUME NEW s \in StackBytes, NEW bytes \in Seq(Byte)
  PROVE  Pushed(s, bytes) \in Outcome
<1>1. CASE Len(s) + Len(bytes) > StackCapacity
  BY <1>1, OutcomeMade DEF Pushed, Status
<1>2. CASE ~ (Len(s) + Len(bytes) > StackCapacity)
  <2>1. s \o bytes \in StackBytes
    BY <1>2, VMAssumption DEF StackBytes
  <2>2. QED
    BY <1>2, <2>1, DoneMade DEF Pushed
<1>3. QED
  BY <1>1, <1>2

LEMMA TruncateStack ==
  ASSUME NEW s \in StackBytes, NEW n \in 0 .. Len(s)
  PROVE  Truncate(s, n) \in StackBytes /\ Len(Truncate(s, n)) = Len(s) - n
<1>1. s \in Seq(Byte) /\ Len(s) \in Nat /\ Len(s) <= StackCapacity
  BY DEF StackBytes
<1>2. Truncate(s, n) \in Seq(Byte) /\ Len(Truncate(s, n)) = Len(s) - n
  BY <1>1, TruncateBytes
<1>3. QED
  BY <1>1, <1>2, VMAssumption DEF StackBytes

LEMMA UnderflowType ==
  ASSUME NEW s \in StackBytes, NEW n \in {1, 4}
  PROVE  Underflow(s, n) \in Outcome /\ Underflow(s, n).status # "OK"
<1>1. s \in Seq(Byte) /\ Len(s) \in Nat /\ Len(s) <= StackCapacity
  BY DEF StackBytes
<1>2. Len(s) % n \in 0 .. Len(s)
  BY <1>1
<1>3. SubSeq(s, 1, Len(s) % n) \in StackBytes
  BY <1>1, <1>2, VMAssumption DEF StackBytes
<1>4. Underflow(s, n) \in Outcome
  BY <1>3, OutcomeMade DEF Underflow, Status
<1>5. Underflow(s, n).status # "OK"
  BY DEF Underflow, Records
<1>6. QED
  BY <1>4, <1>5

LEMMA OperandWord ==
  ASSUME NEW s \in StackBytes, NEW n \in {1, 4}, NEW k \in 1 .. 5,
         n * k <= Len(s)
  PROVE  Operand(s, n, k) \in Word
<1>1. s \in Seq(Byte) /\ Len(s) \in Nat
  BY DEF StackBytes
<1>2. n * (k - 1) \in 0 .. Len(s) /\ n <= Len(s) - n * (k - 1)
  BY <1>1
<1>3. /\ Truncate(s, n * (k - 1)) \in Seq(Byte)
      /\ Len(Truncate(s, n * (k - 1))) = Len(s) - n * (k - 1)
  BY <1>1, <1>2, TruncateBytes
<1>4. /\ Top(Truncate(s, n * (k - 1)), n) \in Seq(Byte)
      /\ Len(Top(Truncate(s, n * (k - 1)), n)) = n
  BY <1>1, <1>2, <1>3, TopBytes
<1>5. QED
  BY <1>4, DecodeRange DEF Operand

(* Popping `count` operands that are there. *)
LEMMA PopOperands ==
  ASSUME NEW s \in StackBytes, NEW n \in {1, 4}, NEW count \in 1 .. 5,
         ~ (Len(s) < count * n)
  PROVE  /\ Truncate(s, count * n) \in StackBytes
         /\ Len(Truncate(s, count * n)) = Len(s) - count * n
         /\ \A k \in 1 .. count : Operand(s, n, k) \in Word
<1>1. Len(s) \in Nat
  BY DEF StackBytes
<1>2. count * n \in 0 .. Len(s)
  BY <1>1
<1>3. \A k \in 1 .. count : n * k <= Len(s) /\ k \in 1 .. 5
  BY <1>1
<1>4. QED
  BY <1>2, <1>3, TruncateStack, OperandWord

LEMMA TypedInt ==
  ASSUME NEW kind, NEW word \in Word
  PROVE  Typed(kind, word) \in Int
BY WordIsInt, SignedInt DEF Typed

LEMMA QuotientInt ==
  ASSUME NEW a \in Int, NEW b \in Int, b # 0
  PROVE  Quotient(a, b) \in Int
<1> DEFINE abs(x) == IF x < 0 THEN - x ELSE x
<1>1. abs(a) \in Nat /\ abs(b) \in Nat /\ abs(b) > 0
  OBVIOUS
<1>2. abs(a) \div abs(b) \in Int
  BY <1>1
<1>3. QED
  BY <1>2 DEF Quotient

LEMMA CalculateInt ==
  ASSUME NEW op \in ArithmeticOp, NEW a \in Int, NEW b \in Int,
         op \in {"Div", "Modulo"} => b # 0
  PROVE  Calculate(op, a, b) \in Int
<1>1. CASE op = "Add"
  BY <1>1 DEF Calculate
<1>2. CASE op = "Sub"
  BY <1>2 DEF Calculate
<1>3. CASE op = "Mul"
  BY <1>3 DEF Calculate
<1>4. CASE op = "Div"
  BY <1>4, QuotientInt DEF Calculate
<1>5. CASE op = "Modulo"
  <2>1. Quotient(a, b) \in Int
    BY <1>5, QuotientInt
  <2>2. b * Quotient(a, b) \in Int
    BY <2>1
  <2>3. QED
    BY <1>5, <2>2 DEF Calculate
<1>6. QED
  BY <1>1, <1>2, <1>3, <1>4, <1>5 DEF ArithmeticOp

LEMMA ArithmeticType ==
  ASSUME NEW s \in StackBytes, NEW kind \in Kind, NEW op
  PROVE  ArithmeticResult(s, kind, op) \in Outcome
<1> DEFINE n == KindSize(kind)
           left == Typed(kind, Operand(s, n, 2))
           right == Typed(kind, Operand(s, n, 1))
           rest == Truncate(s, 2 * n)
<1>1. Len(s) \in Nat
  BY DEF StackBytes
<1>2. CASE kind \notin {"Bool", "Uint8", "Int32"}
  BY <1>2, OutcomeMade DEF ArithmeticResult, Status
<1>3. CASE kind \in {"Bool", "Uint8", "Int32"} /\ Len(s) < 2 * n
  <2>1. n \in {1, 4}
    BY <1>3 DEF KindSize
  <2>2. ArithmeticResult(s, kind, op) = Underflow(s, n)
    BY <1>3 DEF ArithmeticResult
  <2>3. QED
    BY <2>1, <2>2, UnderflowType
<1>4. CASE kind \in {"Bool", "Uint8", "Int32"} /\ ~ (Len(s) < 2 * n)
  <2>1. n \in {1, 4}
    BY <1>4 DEF KindSize
  <2>2. rest \in StackBytes /\ \A k \in 1 .. 2 : Operand(s, n, k) \in Word
    BY <1>4, <2>1, PopOperands
  <2>3. Operand(s, n, 1) \in Word /\ Operand(s, n, 2) \in Word
    BY <2>2
  <2>4. left \in Int /\ right \in Int
    BY <2>3, TypedInt
  <2>5. CASE op \notin ArithmeticOp
    BY <1>4, <2>2, <2>5, OutcomeMade DEF ArithmeticResult, Status
  <2>6. CASE op \in ArithmeticOp /\ op \in {"Div", "Modulo"} /\ right = 0
    BY <1>4, <2>2, <2>6, OutcomeMade DEF ArithmeticResult, Status
  <2>7. CASE op \in ArithmeticOp /\ ~ (op \in {"Div", "Modulo"} /\ right = 0)
    <3>1. Calculate(op, left, right) \in Int
      BY <2>4, <2>7, CalculateInt
    <3>2. Encode(n, Calculate(op, left, right)) \in Seq(Byte)
      BY <2>1, <3>1, EncodeBytes
    <3>3. ArithmeticResult(s, kind, op)
            = Pushed(rest, Encode(n, Calculate(op, left, right)))
      BY <1>4, <2>7 DEF ArithmeticResult
    <3>4. QED
      BY <2>2, <3>2, <3>3, PushedType
  <2>8. QED
    BY <2>5, <2>6, <2>7
<1>5. QED
  BY <1>2, <1>3, <1>4

LEMMA CompareType ==
  ASSUME NEW s \in StackBytes, NEW kind \in Kind, NEW op
  PROVE  CompareResult(s, kind, op) \in Outcome
<1> DEFINE n == KindSize(kind)
           value(bits) == IF kind = "Bool" THEN Truth(bits) ELSE Typed(kind, bits)
           left == value(Operand(s, n, 2))
           right == value(Operand(s, n, 1))
           rest == Truncate(s, 2 * n)
           ops == IF kind = "Bool" THEN {"Equal", "NotEqual"} ELSE CompareOp
           answer == << IF Holds(op, left, right) THEN 1 ELSE 0 >>
<1>1. n \in {0, 1, 4}
  BY KindSizes
<1>2. CASE n = 0
  BY <1>2, OutcomeMade DEF CompareResult, Status
<1>3. CASE n # 0 /\ Len(s) < 2 * n
  BY <1>1, <1>3, UnderflowType DEF CompareResult
<1>4. CASE n # 0 /\ ~ (Len(s) < 2 * n)
  <2>1. rest \in StackBytes
    BY <1>1, <1>4, PopOperands
  <2>2. CASE op \notin ops
    BY <1>4, <2>1, <2>2, OutcomeMade DEF CompareResult, Status
  <2>3. CASE op \in ops
    <3>1. answer \in Seq(Byte)
      <4>1. 0 \in Byte /\ 1 \in Byte
        BY DEF Byte, ByteBase
      <4>2. QED
        BY <4>1
    <3>2. CompareResult(s, kind, op) = Pushed(rest, answer)
      BY <1>4, <2>3 DEF CompareResult
    <3>3. QED
      BY <2>1, <3>1, <3>2, PushedType
  <2>4. QED
    BY <2>2, <2>3
<1>5. QED
  BY <1>2, <1>3, <1>4

LEMMA TruthInt ==
  ASSUME NEW bits
  PROVE  Truth(bits) \in Int
BY DEF Truth

LEMMA ConvertType ==
  ASSUME NEW s \in StackBytes, NEW from \in Kind, NEW to \in Kind
  PROVE  ConvertResult(s, from, to) \in Outcome
<1> DEFINE n == KindSize(from)
           bits == Operand(s, n, 1)
           value == IF "Bool" \in {from, to} THEN Truth(bits) ELSE bits
           rest == Truncate(s, n)
<1>1. n \in {0, 1, 4} /\ KindSize(to) \in {0, 1, 4}
  BY KindSizes
<1>2. CASE n = 0
  BY <1>2, OutcomeMade DEF ConvertResult, Status
<1>3. CASE n # 0 /\ Len(s) < n
  BY <1>1, <1>3, UnderflowType DEF ConvertResult
<1>4. CASE n # 0 /\ ~ (Len(s) < n)
  <2>1. n \in {1, 4} /\ n \in Nat /\ 1 * n = n
    BY <1>1, <1>4
  <2>2. Truncate(s, 1 * n) \in StackBytes /\ bits \in Word
    BY <1>4, <2>1, PopOperands
  <2>3. rest \in StackBytes /\ value \in Int
    BY <2>1, <2>2, WordIsInt, TruthInt
  <2>4. CASE KindSize(to) = 0
    BY <1>4, <2>3, <2>4, OutcomeMade DEF ConvertResult, Status
  <2>5. CASE KindSize(to) # 0
    <3>1. Encode(KindSize(to), value) \in Seq(Byte)
      BY <1>1, <2>3, <2>5, EncodeBytes
    <3>2. ConvertResult(s, from, to) = Pushed(rest, Encode(KindSize(to), value))
      BY <1>4, <2>5 DEF ConvertResult
    <3>3. QED
      BY <2>3, <3>1, <3>2, PushedType
  <2>6. QED
    BY <2>4, <2>5
<1>5. QED
  BY <1>2, <1>3, <1>4

LEMMA PushType ==
  ASSUME NEW s \in StackBytes, NEW kind \in Kind, NEW bits \in Nat
  PROVE  PushResult(s, kind, bits) \in Outcome
<1>1. KindSize(kind) \in {0, 1, 4}
  BY KindSizes
<1>2. CASE KindSize(kind) = 0
  BY <1>2, OutcomeMade DEF PushResult, Status
<1>3. CASE KindSize(kind) # 0
  <2>1. Encode(KindSize(kind), bits) \in Seq(Byte)
    BY <1>1, <1>3, EncodeBytes
  <2>2. QED
    BY <1>3, <2>1, PushedType, OutcomeMade DEF PushResult, Status
<1>4. QED
  BY <1>2, <1>3

(* The frames in use, which the address of a local and a return read. *)
FrameType == [returnPC : Nat, localBase : Nat, returnKind : Kind]

LEMMA AddrType ==
  ASSUME NEW s \in StackBytes, NEW segment \in 0 .. 15, NEW offset \in Nat,
         callFrames \in Seq(FrameType)
  PROVE  AddrResult(s, segment, offset) \in Outcome
<1> DEFINE base == IF segment = Frame THEN LocalBase ELSE 0
<1>1. CASE segment = Frame /\ callFrames = << >>
  BY <1>1, OutcomeMade DEF AddrResult, Status
<1>2. CASE ~ (segment = Frame /\ callFrames = << >>)
  <2>1. base \in Nat
    <3>1. CASE segment # Frame
      BY <3>1
    <3>2. CASE segment = Frame
      <4>1. callFrames[Len(callFrames)] \in FrameType
        BY <1>2, <3>2
      <4>2. QED
        BY <3>2, <4>1 DEF LocalBase, FrameType
    <3>3. QED
      BY <3>1, <3>2
  <2>2. MakeAddress(segment, base + offset) \in Nat
    <3> HIDE DEF base
    <3>1. segment \in Nat /\ base + offset \in Nat
      BY <2>1
    <3>2. QED
      BY <3>1, MakeAddressNat
  <2>3. Encode(4, MakeAddress(segment, base + offset)) \in Seq(Byte)
    BY <2>2, EncodeBytes
  <2>4. AddrResult(s, segment, offset) =
          IF base + offset > AddressIndexMask THEN Sets("InvalidAddress", s)
          ELSE Pushed(s, Encode(4, MakeAddress(segment, base + offset)))
    BY <1>2 DEF AddrResult
  <2>5. QED
    BY <2>3, <2>4, PushedType, OutcomeMade DEF Status
<1>3. QED
  BY <1>1, <1>2

LEMMA OffsetType ==
  ASSUME NEW s \in StackBytes
  PROVE  OffsetResult(s) \in Outcome
<1> DEFINE base == Operand(s, 4, 2)
           index == AddressIndex(base) + Signed(Operand(s, 4, 1))
           rest == Truncate(s, 8)
<1>1. CASE Len(s) < 8
  BY <1>1, UnderflowType DEF OffsetResult
<1>2. CASE ~ (Len(s) < 8)
  <2>1. ~ (Len(s) < 2 * 4) /\ 2 * 4 = 8
    BY <1>2
  <2>2. Truncate(s, 2 * 4) \in StackBytes /\ \A k \in 1 .. 2 : Operand(s, 4, k) \in Word
    BY <2>1, PopOperands
  <2>3. rest \in StackBytes /\ base \in Word
    BY <2>1, <2>2
  <2>4. CASE index \notin 0 .. AddressIndexMask
    BY <1>2, <2>3, <2>4, OutcomeMade DEF OffsetResult, Status
  <2>5. CASE index \in 0 .. AddressIndexMask
    <3>1. AddressSegment(base) \in Nat
      BY <2>3, AddressParts
    <3>2. MakeAddress(AddressSegment(base), index) \in Nat
      <4> HIDE DEF index
      <4>1. index \in Nat
        BY <2>5 DEF AddressIndexMask
      <4>2. QED
        BY <3>1, <4>1, MakeAddressNat
    <3>3. Encode(4, MakeAddress(AddressSegment(base), index)) \in Seq(Byte)
      BY <3>2, EncodeBytes
    <3>4. OffsetResult(s)
            = Pushed(rest, Encode(4, MakeAddress(AddressSegment(base), index)))
      BY <1>2, <2>5 DEF OffsetResult
    <3>5. QED
      BY <2>3, <3>3, <3>4, PushedType
  <2>6. QED
    BY <2>4, <2>5
<1>3. QED
  BY <1>1, <1>2

(* The memory of the VM: the frame memory has its capacity and the operand *)
(* stack stays within its own.                                             *)
Memory ==
  { m \in [Segment -> Seq(Byte)] :
      Len(m[Frame]) = FrameCapacity /\ Len(m[Stack]) <= StackCapacity }

LEMMA MemoryStack ==
  ASSUME NEW m \in Memory, NEW s \in StackBytes
  PROVE  m[Stack] \in StackBytes /\ [m EXCEPT ![Stack] = s] \in Memory
<1>1. Stack \in Segment /\ Frame \in Segment /\ Frame # Stack
  BY DEF Segment, Stack, Frame
<1>2. /\ m \in [Segment -> Seq(Byte)]
      /\ Len(m[Frame]) = FrameCapacity /\ Len(m[Stack]) <= StackCapacity
  BY DEF Memory
<1>3. s \in Seq(Byte) /\ Len(s) <= StackCapacity
  BY DEF StackBytes
<1>4. [m EXCEPT ![Stack] = s] \in [Segment -> Seq(Byte)]
  BY <1>2, <1>3
<1>5. [m EXCEPT ![Stack] = s][Stack] = s /\ [m EXCEPT ![Stack] = s][Frame] = m[Frame]
  BY <1>1, <1>2
<1>6. QED
  BY <1>1, <1>2, <1>3, <1>4, <1>5 DEF Memory, StackBytes

(* Popping an address. *)
LEMMA PopAddress ==
  ASSUME NEW s \in StackBytes, ~ (Len(s) < 4)
  PROVE  /\ Truncate(s, 4) \in StackBytes
         /\ AddressIndex(Operand(s, 4, 1)) \in Nat
<1>1. ~ (Len(s) < 1 * 4) /\ 1 * 4 = 4
  OBVIOUS
<1>2. Truncate(s, 1 * 4) \in StackBytes /\ \A k \in 1 .. 1 : Operand(s, 4, k) \in Word
  BY <1>1, PopOperands
<1>3. Truncate(s, 4) \in StackBytes
  BY <1>1, <1>2
<1>4. Operand(s, 4, 1) \in Word
  BY <1>2
<1>5. AddressIndex(Operand(s, 4, 1)) \in 0 .. AddressIndexMask
  BY <1>4, AddressParts
<1>6. AddressIndex(Operand(s, 4, 1)) \in Nat
  BY <1>5
<1>7. QED
  BY <1>3, <1>6

LEMMA DereferenceType ==
  ASSUME NEW s \in StackBytes, NEW kind \in Kind, memory \in Memory
  PROVE  DereferenceResult(s, kind) \in Outcome
<1> DEFINE n == KindSize(kind)
           rest == Truncate(s, 4)
           segment == AddressSegment(Operand(s, 4, 1))
           source == IF segment = Stack THEN rest ELSE memory[segment]
           offset == AddressIndex(Operand(s, 4, 1))
<1>1. CASE kind = "None"
  BY <1>1, OutcomeMade DEF DereferenceResult, Status
<1>2. CASE kind # "None" /\ Len(s) < 4
  BY <1>2, UnderflowType DEF DereferenceResult
<1>3. CASE kind # "None" /\ ~ (Len(s) < 4)
  <2>1. rest \in StackBytes /\ offset \in Nat
    BY <1>3, PopAddress
  <2>2. CASE segment \notin Segment
    BY <1>3, <2>1, <2>2, OutcomeMade DEF DereferenceResult, Status
  <2>3. CASE segment \in Segment /\ n = 0
    BY <1>3, <2>1, <2>3, OutcomeMade DEF DereferenceResult, Status
  <2>4. CASE segment \in Segment /\ n # 0 /\ ~ InSegment(source, offset, n)
    BY <1>3, <2>1, <2>4, OutcomeMade DEF DereferenceResult, Status
  <2>5. CASE segment \in Segment /\ n # 0 /\ InSegment(source, offset, n)
    <3>1. source \in Seq(Byte)
      BY <2>1, <2>5 DEF Memory, StackBytes
    <3>2. n \in Nat
      BY KindSizes
    <3>3. ReadBytes(source, offset, n) \in Seq(Byte)
      <4> HIDE DEF source, offset, n
      <4>1. QED
        BY <2>1, <2>5, <3>1, <3>2, ReadBytesRange
    <3>4. DereferenceResult(s, kind) = Pushed(rest, ReadBytes(source, offset, n))
      BY <1>3, <2>5 DEF DereferenceResult
    <3>5. QED
      BY <2>1, <3>3, <3>4, PushedType
  <2>6. QED
    BY <2>2, <2>3, <2>4, <2>5
<1>4. QED
  BY <1>1, <1>2, <1>3

LEMMA AssignType ==
  ASSUME NEW s \in StackBytes, NEW kind \in Kind, memory \in Memory
  PROVE  AssignResult(s, kind) \in Outcome
<1> DEFINE n == KindSize(kind)
           rest == Truncate(s, 4)
           popped == Truncate(rest, n)
           segment == AddressSegment(Operand(s, 4, 1))
           destination == IF segment = Stack THEN rest ELSE memory[segment]
           offset == AddressIndex(Operand(s, 4, 1))
           left == IF segment = Stack
                     THEN WriteBytes(popped, offset, Top(rest, n)) ELSE popped
<1>1. CASE kind = "None"
  BY <1>1, OutcomeMade DEF AssignResult, Status
<1>2. CASE kind # "None" /\ Len(s) < 4
  BY <1>2, UnderflowType DEF AssignResult
<1>3. CASE kind # "None" /\ ~ (Len(s) < 4)
  <2>1. rest \in StackBytes /\ offset \in Nat
    BY <1>3, PopAddress
  <2>2. CASE ~ /\ Writable(segment)
               /\ segment \in Segment
               /\ n # 0
               /\ InSegment(destination, offset, n)
               /\ ~ (Len(rest) < n)
    BY <1>3, <2>1, <2>2, OutcomeMade DEF AssignResult, Status
  <2>3. CASE /\ Writable(segment)
             /\ segment \in Segment
             /\ n # 0
             /\ InSegment(destination, offset, n)
             /\ ~ (Len(rest) < n)
    <3>1. AssignResult(s, kind) =
            IF segment = Stack /\ ~ InSegment(popped, offset, n)
              THEN Sets("InvalidAddress", popped) ELSE Done(left)
      BY <1>3, <2>3 DEF AssignResult
    <3>2. n \in 0 .. Len(rest) /\ rest \in Seq(Byte)
      BY <2>1, <2>3, KindSizes DEF StackBytes
    <3>3. popped \in StackBytes
      BY <2>1, <3>2, TruncateStack
    <3>4. Top(rest, n) \in Seq(Byte)
      BY <3>2, TopBytes
    <3>5. left \in StackBytes
      <4> HIDE DEF popped, rest, n, offset
      <4>1. popped \in Seq(Byte) /\ Len(popped) <= StackCapacity
        BY <3>3 DEF StackBytes
      <4>2. /\ WriteBytes(popped, offset, Top(rest, n)) \in Seq(Byte)
            /\ Len(WriteBytes(popped, offset, Top(rest, n))) = Len(popped)
        BY <2>1, <3>4, <4>1, WriteBytesRange
      <4>3. QED
        BY <3>3, <4>1, <4>2 DEF StackBytes
    <3>6. QED
      BY <3>1, <3>3, <3>5, OutcomeMade, DoneMade DEF Status
  <2>4. QED
    BY <2>2, <2>3
<1>4. QED
  BY <1>1, <1>2, <1>3

(* An assignment that succeeds writes inside a segment and so keeps the    *)
(* size of every segment but the stack's.                                  *)
LEMMA AssignedType ==
  ASSUME NEW s \in StackBytes, NEW kind \in Kind, memory \in Memory,
         AssignResult(s, kind).status = "OK"
  PROVE  /\ Assigned(s, kind, AssignResult(s, kind).stack) \in Memory
<1> DEFINE n == KindSize(kind)
           rest == Truncate(s, 4)
           segment == AddressSegment(Operand(s, 4, 1))
           offset == AddressIndex(Operand(s, 4, 1))
           left == AssignResult(s, kind).stack
           value == Top(rest, n)
           m == [memory EXCEPT ![Stack] = left]
<1>1. ~ (Len(s) < 4) /\ segment \in Segment /\ ~ (Len(rest) < n)
  BY DEF AssignResult, Records, Sets, Underflow
<1>2. rest \in StackBytes /\ offset \in Nat
  BY <1>1, PopAddress
<1>3. left \in StackBytes
  BY AssignType DEF Outcome
<1>4. value \in Seq(Byte)
  <2>1. n \in 0 .. Len(rest) /\ rest \in Seq(Byte)
    BY <1>1, <1>2, KindSizes DEF StackBytes
  <2>2. QED
    BY <2>1, TopBytes
<1>5. m \in Memory
  BY <1>3, MemoryStack
<1>6. CASE segment = Stack
  <2>1. Assigned(s, kind, left) = [memory EXCEPT ![Stack] = left, ![Stack] = left]
    BY <1>6 DEF Assigned
  <2>2. [memory EXCEPT ![Stack] = left, ![Stack] = left] = m
    BY DEF Memory
  <2>3. QED
    BY <1>5, <2>1, <2>2
<1>7. CASE segment # Stack
  <2> DEFINE written == WriteBytes(memory[segment], offset, value)
  <2>1. Assigned(s, kind, left) = [m EXCEPT ![segment] = written]
    BY <1>1, <1>7 DEF Assigned, Memory
  <2>2. memory[segment] \in Seq(Byte)
    BY <1>1 DEF Memory
  <2>3. written \in Seq(Byte) /\ Len(written) = Len(memory[segment])
    <3> HIDE DEF offset, value, segment
    <3>1. QED
      BY <1>2, <1>4, <2>2, WriteBytesRange
  <2>4. [m EXCEPT ![segment] = written] \in Memory
    <3> HIDE DEF m, written, segment
    <3>1. m[segment] = memory[segment]
      BY <1>1, <1>7 DEF m, Memory
    <3> DEFINE after == [m EXCEPT ![segment] = written]
    <3>2. m \in [Segment -> Seq(Byte)]
      BY <1>5 DEF Memory
    <3>3. after \in [Segment -> Seq(Byte)]
      BY <2>3, <3>2
    <3>4. after[Frame] = IF segment = Frame THEN written ELSE m[Frame]
      BY <3>2 DEF Segment, Frame
    <3>5. after[Stack] = m[Stack]
      BY <1>7, <3>2 DEF Segment, Stack
    <3>6. Len(after[Frame]) = FrameCapacity /\ Len(after[Stack]) <= StackCapacity
      BY <1>5, <2>3, <3>1, <3>4, <3>5 DEF Memory
    <3>7. QED
      BY <3>3, <3>6 DEF Memory
  <2>5. QED
    BY <2>1, <2>4
<1>8. QED
  BY <1>6, <1>7

LEMMA NumbersType ==
  ASSUME NEW s \in StackBytes, NEW kind \in Kind, KindSize(kind) # 0
  PROVE  Numbers(s, kind) \subseteq Outcome
<1>1. KindSize(kind) \in {1, 4}
  BY KindSizes
<1>2. ASSUME NEW number \in MathResults
      PROVE  Pushed(s, Encode(KindSize(kind), number)) \in Outcome
  <2>1. number \in Int
    BY VMAssumption
  <2>2. Encode(KindSize(kind), number) \in Seq(Byte)
    BY <1>1, <2>1, EncodeBytes
  <2>3. QED
    BY <2>2, PushedType
<1>3. QED
  BY <1>2 DEF Numbers

LEMMA MathType ==
  ASSUME NEW s \in StackBytes, NEW kind \in Kind, NEW op \in MathBuiltIn
  PROVE  MathOutcomes(s, kind, op) \subseteq Outcome
<1> DEFINE n == KindSize(kind)
           count == MathOperands(op)
           rest == Truncate(s, count * n)
           value(k) == Typed(kind, Operand(s, n, k))
<1>1. n \in {0, 1, 4} /\ count \in 1 .. 5
  BY KindSizes DEF MathBuiltIn, MathOperands
<1>2. CASE n = 0
  BY <1>2, OutcomeMade DEF MathOutcomes, Status
<1>3. CASE n # 0 /\ Len(s) < count * n
  <2>1. Underflow(s, n) \in Outcome
    BY <1>1, <1>3, UnderflowType
  <2>2. QED
    BY <1>3, <2>1 DEF MathOutcomes
<1>4. CASE n # 0 /\ ~ (Len(s) < count * n)
  <2>1. rest \in StackBytes
    BY <1>1, <1>4, PopOperands
  <2>2. /\ Records("InvalidValueKind", rest) \in Outcome
        /\ Records("InvalidParameter", rest) \in Outcome
        /\ Records("DivisionByZero", rest) \in Outcome
    BY <2>1, OutcomeMade DEF Status
  <2>3. Numbers(rest, kind) \subseteq Outcome
    BY <1>4, <2>1, NumbersType
  <2>4. QED
    BY <1>4, <2>2, <2>3 DEF MathOutcomes
<1>5. QED
  BY <1>2, <1>3, <1>4

LEMMA InterpolationType ==
  ASSUME NEW s \in StackBytes, NEW kind \in Kind
  PROVE  InterpolationOutcomes(s, kind) \subseteq Outcome
<1> DEFINE n == KindSize(kind)
           values == Truncate(s, 1)
           rest == Truncate(values, 3 * n)
<1>1. n \in {0, 1, 4}
  BY KindSizes
<1>2. CASE Len(s) < 1
  BY <1>2, UnderflowType DEF InterpolationOutcomes
<1>3. CASE ~ (Len(s) < 1)
  <2>1. values \in StackBytes
    <3>1. 1 \in 0 .. Len(s)
      BY <1>3 DEF StackBytes
    <3>2. QED
      BY <3>1, TruncateStack
  <2>2. CASE n = 0
    BY <1>3, <2>1, <2>2, OutcomeMade DEF InterpolationOutcomes, Status
  <2>3. CASE n # 0 /\ Len(values) < 3 * n
    <3>1. Underflow(values, n) \in Outcome
      BY <1>1, <2>1, <2>3, UnderflowType
    <3>2. QED
      BY <1>3, <2>3, <3>1 DEF InterpolationOutcomes
  <2>4. CASE n # 0 /\ ~ (Len(values) < 3 * n)
    <3>1. rest \in StackBytes
      BY <1>1, <2>1, <2>4, PopOperands
    <3>2. Records("InvalidParameter", rest) \in Outcome
      BY <3>1, OutcomeMade DEF Status
    <3>3. Numbers(rest, kind) \subseteq Outcome
      BY <2>4, <3>1, NumbersType
    <3>4. QED
      BY <1>3, <2>4, <3>2, <3>3 DEF InterpolationOutcomes
  <2>5. QED
    BY <2>2, <2>3, <2>4
<1>4. QED
  BY <1>2, <1>3

LEMMA BuiltInType ==
  ASSUME NEW s \in StackBytes, NEW kind \in Kind, NEW op, tickTime \in Nat
  PROVE  BuiltInOutcomes(s, kind, op) \subseteq Outcome
<1>1. Records("InvalidValueKind", s) \in Outcome
  BY OutcomeMade DEF Status
<1>2. Pushed(s, Encode(4, tickTime)) \in Outcome
  BY EncodeBytes, PushedType
<1>3. CASE op = "TickTime"
  BY <1>1, <1>2, <1>3 DEF BuiltInOutcomes, MathBuiltIn
<1>4. CASE op = "Random"
  <2>1. kind = "Int32" => Numbers(s, kind) \subseteq Outcome
    BY NumbersType DEF KindSize
  <2>2. QED
    BY <1>1, <1>4, <2>1 DEF BuiltInOutcomes, MathBuiltIn
<1>5. CASE op = "Lerp"
  BY <1>5, InterpolationType DEF BuiltInOutcomes, MathBuiltIn
<1>6. CASE op \in MathBuiltIn
  <2>1. BuiltInOutcomes(s, kind, op) = MathOutcomes(s, kind, op)
    BY <1>6 DEF BuiltInOutcomes, MathBuiltIn
  <2>2. QED
    BY <1>6, <2>1, MathType
<1>7. CASE op \notin {"TickTime", "Random", "Lerp"} \cup MathBuiltIn
  BY <1>1, <1>7 DEF BuiltInOutcomes
<1>8. QED
  BY <1>3, <1>4, <1>5, <1>6, <1>7

(* A timer instruction that succeeds names a slot of the VM and a duration *)
(* of one word.                                                            *)
LEMMA TimerType ==
  ASSUME NEW s \in StackBytes, NEW kind \in Kind, NEW op \in TimerBuiltIn
  PROVE  /\ TimerResult(s, kind, op) \in Outcome
         /\ TimerResult(s, kind, op).status = "OK" =>
              /\ Operand(SlotStack(s, op), 1, 1) \in TimerId
              /\ op = "TimerStart" => Operand(s, 4, 1) \in Word
<1> DEFINE below == SlotStack(s, op)
           rest == Truncate(below, 1)
           id == Operand(below, 1, 1)
           answer == << IF TimerDone(id) THEN 1 ELSE 0 >>
<1>1. CASE kind # TimerKind(op)
  <2>1. TimerResult(s, kind, op) = Records("InvalidValueKind", s)
    BY <1>1 DEF TimerResult
  <2>2. QED
    BY <2>1, OutcomeMade DEF Records, Status
<1>2. CASE kind = TimerKind(op) /\ op = "TimerStart" /\ Len(s) < 4
  <2>1. TimerResult(s, kind, op) = Underflow(s, 4)
    BY <1>2 DEF TimerResult
  <2>2. QED
    BY <2>1, UnderflowType
<1>3. CASE kind = TimerKind(op) /\ ~ (op = "TimerStart" /\ Len(s) < 4)
  <2>1. /\ below \in StackBytes
        /\ op = "TimerStart" => Operand(s, 4, 1) \in Word
    <3>1. CASE op = "TimerStart"
      <4>1. 4 \in 0 .. Len(s) /\ 4 * 1 <= Len(s)
        BY <1>3, <3>1 DEF StackBytes
      <4>2. Truncate(s, 4) \in StackBytes
        BY <4>1, TruncateStack
      <4>3. Operand(s, 4, 1) \in Word
        BY <4>1, OperandWord
      <4>4. QED
        BY <3>1, <4>2, <4>3 DEF SlotStack
    <3>2. CASE op # "TimerStart"
      BY <3>2 DEF SlotStack
    <3>3. QED
      BY <3>1, <3>2
  <2>2. CASE Len(below) < 1
    <3>1. TimerResult(s, kind, op) = Underflow(below, 1)
      BY <1>3, <2>2 DEF TimerResult
    <3>2. QED
      BY <2>1, <3>1, UnderflowType
  <2>3. CASE ~ (Len(below) < 1)
    <3>1. rest \in StackBytes
      <4>1. 1 \in 0 .. Len(below)
        BY <2>1, <2>3 DEF StackBytes
      <4>2. QED
        BY <2>1, <4>1, TruncateStack
    <3>2. CASE id \notin TimerId
      <4>1. TimerResult(s, kind, op) = Records("InvalidParameter", rest)
        BY <1>3, <2>3, <3>2 DEF TimerResult
      <4>2. QED
        BY <3>1, <4>1, OutcomeMade DEF Records, Status
    <3>3. CASE id \in TimerId
      <4>1. TimerResult(s, kind, op) =
              IF op = "TimerDone" THEN Pushed(rest, answer) ELSE Done(rest)
        BY <1>3, <2>3, <3>3 DEF TimerResult
      <4>2. answer \in Seq(Byte)
        <5>1. 0 \in Byte /\ 1 \in Byte
          BY DEF Byte, ByteBase
        <5>2. QED
          BY <5>1
      <4>3. TimerResult(s, kind, op) \in Outcome
        BY <3>1, <4>1, <4>2, PushedType, DoneMade
      <4>4. QED
        BY <2>1, <3>3, <4>3
    <3>4. QED
      BY <3>2, <3>3
  <2>4. QED
    BY <2>2, <2>3
<1>4. QED
  BY <1>1, <1>2, <1>3

-----------------------------------------------------------------------------
(* Entering a function. *)

(* A set of numbers that is not empty has a least element. *)
LEMMA LeastNatural ==
  ASSUME NEW T \in SUBSET Nat, T # {}
  PROVE  \E x \in T : \A y \in T : x <= y
<1>1. PICK x \in T : \A y \in T : ~ (<< y, x >> \in OpToRel(<, Nat))
  BY NatLessThanWellFounded, WFMin
<1>2. \A y \in T : << y, x >> \in Nat \X Nat
  OBVIOUS
<1>3. ASSUME NEW y \in T PROVE ~ (y < x)
  BY <1>1, <1>2 DEF OpToRel
<1>4. \A y \in T : y \in Int /\ x \in Int /\ x <= y
  BY <1>3
<1>5. QED
  BY <1>4

LEMMA ParamTypes ==
  ASSUME NEW p \in LinkedProgram, NEW fn \in Function, ParamsInRange(p, fn),
         NEW i \in Params(fn)
  PROVE  ParamSize(p, fn, i) \in {0, 1, 4} /\ ParamOffset(p, fn, i) \in Nat
<1>1. /\ p.paramKinds \in Seq(Kind) /\ p.paramOffsets \in Seq(Nat)
      /\ fn.paramStart \in Nat /\ fn.paramCount \in Nat
  BY DEF LinkedProgram, Function
<1>2. /\ fn.paramStart + i \in 1 .. Len(p.paramKinds)
      /\ fn.paramStart + i \in 1 .. Len(p.paramOffsets)
  BY <1>1, SMTT(30) DEF ParamsInRange, Params
<1>3. p.paramKinds[fn.paramStart + i] \in Kind /\ ParamOffset(p, fn, i) \in Nat
  BY <1>1, <1>2 DEF ParamOffset
<1>4. QED
  BY <1>3, KindSizes DEF ParamSize

(* The bytes from the i-th parameter on are a number, shrink with i, and   *)
(* include the i-th parameter's.                                           *)
LEMMA ArgumentBytesOrder ==
  ASSUME NEW p \in LinkedProgram, NEW fn \in Function
  PROVE  /\ \A i \in Nat : ArgumentBytes(p, fn, i) \in Nat
         /\ ParamsInRange(p, fn) =>
              \A i \in Params(fn) :
                /\ ArgumentBytes(p, fn, i) <= ArgumentBytes(p, fn, 1)
                /\ ParamSize(p, fn, i) <= ArgumentBytes(p, fn, i)
<1> DEFINE all == Params(fn) \X (1 .. 4)
           from(i) == { slot \in all : slot[1] >= i
                                        /\ slot[2] <= ParamSize(p, fn, slot[1]) }
<1>1. fn.paramCount \in Nat
  BY DEF Function
<1>2. IsFiniteSet(all)
  <2>1. IsFiniteSet(Params(fn))
    <3>1. 1 \in Int /\ fn.paramCount \in Int
      BY <1>1
    <3>2. IsFiniteSet(1 .. fn.paramCount)
      BY <3>1, FS_Interval
    <3>3. QED
      BY <3>2 DEF Params
  <2>2. IsFiniteSet(1 .. 4)
    <3>1. 1 \in Int /\ 4 \in Int
      OBVIOUS
    <3>2. QED
      BY <3>1, FS_Interval
  <2>3. QED
    BY <2>1, <2>2, FS_Product
<1>3. ASSUME NEW i \in Nat
      PROVE  /\ IsFiniteSet(from(i))
             /\ ArgumentBytes(p, fn, i) = Cardinality(from(i))
             /\ ArgumentBytes(p, fn, i) \in Nat
  <2>1. from(i) \in SUBSET all
    OBVIOUS
  <2>2. IsFiniteSet(from(i))
    BY <1>2, <2>1, FS_Subset
  <2>3. Cardinality(from(i)) \in Nat
    BY <2>2, FS_CardinalityType
  <2>4. QED
    BY <2>2, <2>3 DEF ArgumentBytes
<1>4. ASSUME ParamsInRange(p, fn), NEW i \in Params(fn)
      PROVE  /\ ArgumentBytes(p, fn, i) <= ArgumentBytes(p, fn, 1)
             /\ ParamSize(p, fn, i) <= ArgumentBytes(p, fn, i)
  <2>1. i \in Nat /\ i >= 1
    BY <1>1 DEF Params
  <2>2. from(i) \in SUBSET from(1)
    BY <1>1, <2>1 DEF Params
  <2>3. Cardinality(from(i)) <= Cardinality(from(1))
    BY <1>3, <2>2, FS_Subset
  <2>4. ArgumentBytes(p, fn, i) <= ArgumentBytes(p, fn, 1)
    BY <1>3, <2>1, <2>3
  <2> DEFINE own == {i} \X (1 .. ParamSize(p, fn, i))
  <2>5. ParamSize(p, fn, i) \in {0, 1, 4}
    BY <1>4, ParamTypes
  <2>6. own \in SUBSET from(i)
    BY <2>1, <2>5
  <2>7. Cardinality(own) = ParamSize(p, fn, i)
    <3>1. IsFiniteSet({i}) /\ Cardinality({i}) = 1
      BY FS_Singleton
    <3>2. /\ IsFiniteSet(1 .. ParamSize(p, fn, i))
          /\ Cardinality(1 .. ParamSize(p, fn, i)) = ParamSize(p, fn, i)
      BY <2>5, FS_Interval
    <3> DEFINE bytes == 1 .. ParamSize(p, fn, i)
    <3>3. Cardinality({i} \X bytes) = Cardinality({i}) * Cardinality(bytes)
      <4>1. IsFiniteSet({i}) /\ IsFiniteSet(bytes)
        BY <3>1, <3>2
      <4> HIDE DEF bytes
      <4>2. QED
        BY <4>1, FS_Product
    <3>4. QED
      BY <2>5, <3>1, <3>2, <3>3
  <2>8. Cardinality(own) <= Cardinality(from(i))
    BY <1>3, <2>1, <2>6, FS_Subset
  <2>9. ParamSize(p, fn, i) <= ArgumentBytes(p, fn, i)
    BY <1>3, <2>1, <2>7, <2>8
  <2>10. QED
    BY <2>4, <2>9
<1>5. QED
  BY <1>3, <1>4

(* Every byte of a parameter is read from inside the operand stack. *)
LEMMA ArgumentByteType ==
  ASSUME NEW p \in LinkedProgram, NEW fn \in Function, ParamsInRange(p, fn),
         NEW s \in Seq(Byte), ArgumentBytes(p, fn, 1) <= Len(s),
         NEW b \in Int, Covering(p, fn, b) # {}
  PROVE  ArgumentByte(p, fn, s, b) \in Byte
<1> DEFINE first == CHOOSE i \in Covering(p, fn, b) :
                      \A j \in Covering(p, fn, b) : i <= j
<1>1. Covering(p, fn, b) \in SUBSET Nat
  BY DEF Covering, Params, Function
<1>2. \E i \in Covering(p, fn, b) : \A j \in Covering(p, fn, b) : i <= j
  BY <1>1, LeastNatural
<1>3. first \in Covering(p, fn, b)
  BY <1>2
<1> HIDE DEF first
<1>4. /\ first \in Params(fn)
      /\ b \in ParamOffset(p, fn, first) + 1
                 .. ParamOffset(p, fn, first) + ParamSize(p, fn, first)
  BY <1>3 DEF Covering
<1>5. first \in Nat /\ 1 \in Nat
  BY <1>4 DEF Params, Function
<1>6. ParamSize(p, fn, first) \in Nat /\ ParamOffset(p, fn, first) \in Nat
  BY <1>4, ParamTypes
<1>7. /\ ArgumentBytes(p, fn, first) \in Nat
      /\ ArgumentBytes(p, fn, first) <= Len(s)
      /\ ParamSize(p, fn, first) <= ArgumentBytes(p, fn, first)
  <2>1. ArgumentBytes(p, fn, first) \in Nat /\ ArgumentBytes(p, fn, 1) \in Nat
    BY <1>5, ArgumentBytesOrder
  <2>2. /\ ArgumentBytes(p, fn, first) <= ArgumentBytes(p, fn, 1)
        /\ ParamSize(p, fn, first) <= ArgumentBytes(p, fn, first)
    BY <1>4, ArgumentBytesOrder
  <2>3. QED
    BY <2>1, <2>2
<1>8. Len(s) - ArgumentBytes(p, fn, first) + b - ParamOffset(p, fn, first)
        \in 1 .. Len(s)
  BY <1>4, <1>6, <1>7
<1>9. ArgumentByte(p, fn, s, b)
        = s[Len(s) - ArgumentBytes(p, fn, first) + b - ParamOffset(p, fn, first)]
  BY DEF ArgumentByte, first
<1>10. QED
  BY <1>8, <1>9

LEMMA EnteredFrameType ==
  ASSUME NEW p \in LinkedProgram, NEW fn \in Function, ParamsInRange(p, fn),
         NEW s \in Seq(Byte), ArgumentBytes(p, fn, 1) <= Len(s),
         NEW frame \in Seq(Byte), NEW base \in Nat
  PROVE  /\ EnteredFrame(p, fn, s, frame, base) \in Seq(Byte)
         /\ Len(EnteredFrame(p, fn, s, frame, base)) = Len(frame)
<1> DEFINE byte(b) ==
             IF b \notin base + 1 .. base + fn.frameByteSize THEN frame[b]
             ELSE IF Covering(p, fn, b - base) = {} THEN 0
             ELSE ArgumentByte(p, fn, s, b - base)
<1>1. ASSUME NEW b \in 1 .. Len(frame)
      PROVE  byte(b) \in Byte
  <2>1. b - base \in Int /\ frame[b] \in Byte /\ 0 \in Byte
    BY DEF Byte, ByteBase
  <2>2. Covering(p, fn, b - base) # {}
          => ArgumentByte(p, fn, s, b - base) \in Byte
    BY <2>1, ArgumentByteType
  <2>3. QED
    BY <2>1, <2>2
<1> HIDE DEF byte
<1>2. [b \in 1 .. Len(frame) |-> byte(b)] \in [1 .. Len(frame) -> Byte]
  BY <1>1
<1>3. EnteredFrame(p, fn, s, frame, base) = [b \in 1 .. Len(frame) |-> byte(b)]
  BY DEF EnteredFrame, byte
<1>4. QED
  BY <1>2, <1>3, BytesFromFunction

(* What the checks of an entry establish. *)
LEMMA EnterChecked ==
  ASSUME NEW p \in LinkedProgram, NEW f \in Nat, NEW s \in Seq(Byte),
         NEW base \in Nat, NEW depth \in Nat,
         EnterStatus(p, f, s, base, depth) = "OK"
  PROVE  /\ p.functions[f + 1] \in Function
         /\ ParamsInRange(p, p.functions[f + 1])
         /\ ArgumentBytes(p, p.functions[f + 1], 1) \in 0 .. Len(s)
         /\ base + p.functions[f + 1].frameByteSize <= FrameCapacity
         /\ depth < CallFrameCapacity
<1> DEFINE fn == p.functions[f + 1]
<1>1. ~ (f >= Len(p.functions))
  BY DEF EnterStatus
<1>2. p.functions \in Seq(Function)
  BY DEF LinkedProgram
<1>3. fn \in Function
  BY <1>1, <1>2
<1>4. /\ ParamsInRange(p, fn)
      /\ ~ (ArgumentBytes(p, fn, 1) > Len(s))
      /\ FrameFitsAt(base, fn.frameByteSize)
      /\ ~ (depth >= CallFrameCapacity)
  BY DEF EnterStatus
<1>5. ArgumentBytes(p, fn, 1) \in Nat
  BY <1>3, ArgumentBytesOrder
<1>6. ArgumentBytes(p, fn, 1) \in 0 .. Len(s)
  BY <1>4, <1>5
<1>7. base + fn.frameByteSize <= FrameCapacity /\ depth < CallFrameCapacity
  BY <1>4, VMAssumption DEF FrameFitsAt
<1>8. QED
  BY <1>3, <1>4, <1>6, <1>7

LEMMA EnteredType ==
  ASSUME NEW p \in LinkedProgram, NEW f \in Nat, NEW m \in Memory,
         NEW base \in Nat, NEW depth \in Nat,
         EnterStatus(p, f, m[Stack], base, depth) = "OK"
  PROVE  Entered(p, p.functions[f + 1], m, base) \in Memory
<1> DEFINE fn == p.functions[f + 1]
           frame == EnteredFrame(p, fn, m[Stack], m[Frame], base)
           left == Truncate(m[Stack], ArgumentBytes(p, fn, 1))
           after == [m EXCEPT ![Frame] = frame]
<1>1. /\ m \in [Segment -> Seq(Byte)] /\ m[Frame] \in Seq(Byte)
      /\ m[Stack] \in StackBytes /\ m[Stack] \in Seq(Byte)
      /\ Len(m[Frame]) = FrameCapacity /\ Len(m[Stack]) <= StackCapacity
  BY DEF Memory, Segment, Stack, Frame, StackBytes
<1>2. /\ fn \in Function /\ ParamsInRange(p, fn)
      /\ ArgumentBytes(p, fn, 1) \in 0 .. Len(m[Stack])
  BY <1>1, EnterChecked
<1>3. ArgumentBytes(p, fn, 1) <= Len(m[Stack])
  BY <1>1, <1>2
<1>4. frame \in Seq(Byte) /\ Len(frame) = FrameCapacity
  <2> HIDE DEF fn
  <2>1. QED
    BY <1>1, <1>2, <1>3, EnteredFrameType
<1>5. left \in StackBytes
  BY <1>1, <1>2, TruncateStack
<1> HIDE DEF frame, left, fn
<1>6. after \in Memory
  <2>1. after \in [Segment -> Seq(Byte)]
    BY <1>1, <1>4
  <2>2. after[Frame] = frame /\ after[Stack] = m[Stack]
    BY <1>1 DEF Segment, Frame, Stack
  <2>3. QED
    BY <1>1, <1>4, <2>1, <2>2 DEF Memory
<1>7. Entered(p, fn, m, base) = [after EXCEPT ![Stack] = left]
  BY <1>1 DEF Entered, frame, left, Segment, Frame, Stack
<1>8. QED
  BY <1>5, <1>6, <1>7, MemoryStack DEF fn
=============================================================================
