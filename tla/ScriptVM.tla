------------------------------ MODULE ScriptVM ------------------------------
(***************************************************************************)
(* The Go virtual machine (cova/vm.go): loading a linked program,          *)
(* resetting, running the interpreter loop, script calls and returns,      *)
(* calls out to the host's extern dispatcher, and fault reporting.         *)
(*                                                                         *)
(* One step executes one instruction.  A dispatcher call is not a step: it *)
(* hands control to the host, which pushes, pops and writes extern memory  *)
(* through the VM's API, may load another program, and then returns.       *)
(*                                                                         *)
(* The text is a sequence of decoded instructions, so an address in it is  *)
(* an instruction's position, counted from 0 as in the code.               *)
(***************************************************************************)
EXTENDS SegmentMemory, VMTime, FiniteSets

CONSTANTS
  Programs,          \* the linked programs the host may load
  NoProgram,         \* a nil program
  FrameCapacity,     \* VMConfig: bytes of frame memory,
  StackCapacity,     \*   bytes of operand stack,
  CallFrameCapacity, \*   and call frames
  HostKinds,         \* kinds and values the dispatcher pushes and pops
  HostValues,
  HostOffsets,       \* offsets the host writes in extern memory
  HostStatuses,      \* statuses the dispatcher returns
  ExternSizes,       \* sizes of extern memory the host allocates
  MathResults,       \* numbers a math built-in may return
  HostReloads        \* may the dispatcher call LoadProgram and Reset?

Opcode ==
  {"Push", "Arithmetic", "Convert", "Addr", "Offset", "Dereference",
   "Assign", "Compare", "JumpIfFalse", "Jump", "Call", "CallExtern", "Ret",
   "BuiltIn", "Unknown", "Truncated"}

ArithmeticOp == {"Add", "Sub", "Mul", "Div", "Modulo"}
CompareOp == {"Equal", "NotEqual", "Less", "LessEqual", "Greater",
              "GreaterEqual"}
BuiltInOperation ==
  {"TickTime", "TimerStart", "TimerStop", "TimerReset", "TimerDone",
   "Random", "Abs", "Min", "Map", "Clamp", "Lerp"}

Status ==
  {"OK", "MalformedBytecode", "InvalidProgram", "InvalidImage",
   "NoProgramLoaded", "InvalidLifecycle", "InvalidDescriptor",
   "InvalidParameter", "InvalidValueKind", "InvalidAddress",
   "InvalidAddressSegment", "ReadOnlyMemory", "InvalidTarget",
   "InvalidOpcode", "StackUnderflow", "StackOverflow", "FrameOverflow",
   "CallFrameOverflow", "DivisionByZero", "MissingExtern", "HostFailure"}

(* `from` is the source kind of a conversion, `sub` the arithmetic, compare *)
(* or built-in operation, `arg` the immediate, offset, target or import.    *)
Instruction ==
  [op : Opcode, kind : Kind, from : Kind, segment : 0 .. 15, sub : STRING,
   arg : Nat]

Function ==
  [bodyAddress : Nat, paramStart : Nat, paramCount : Nat,
   frameByteSize : Nat, returnKind : Kind]

LinkedProgram ==
  [text : Seq(Instruction), functions : Seq(Function), entryPoint : Nat,
   paramKinds : Seq(Kind), paramOffsets : Seq(Nat),
   constByteSize : Nat, constData : Seq(Byte),
   dataByteSize : Nat, dataData : Seq(Byte), bssByteSize : Nat]

ASSUME VMAssumption ==
  /\ Programs \subseteq LinkedProgram
  /\ NoProgram \notin Programs
  /\ FrameCapacity \in Nat
  /\ StackCapacity \in Nat
  /\ CallFrameCapacity \in Nat \ {0}
  /\ ExternSizes \subseteq Nat
  /\ MathResults \subseteq Nat
  /\ HostKinds \subseteq Kind
  /\ HostValues \subseteq Nat
  /\ HostOffsets \subseteq Nat
  /\ HostStatuses \subseteq Status \ {"OK"}
  /\ HostReloads \in BOOLEAN
  /\ WordBase - 1 <= MaxTime        \* a duration is any uint32

VARIABLES
  mode,          \* "idle", "script" (in the loop), "host" (in the dispatcher)
  program,       \* vm.program
  running,       \* the program RunLoaded captured when it started
  memory,        \* segment number -> bytes; Stack holds its current length
  pc,
  callFrames,    \* the callFrameTop frames in use: returnPC, localBase, kind
  frameTop,
  hasDispatcher, \* an extern dispatcher is registered
  fault,         \* FaultInfo: status, pc, hostStatus
  instructionPC, \* pc of the instruction under execution, or NoPC
  result,        \* what the last LoadProgram, Reset or RunLoaded returned
  frameSizes     \* history: the frame size of the function of each frame

NoPC == -1
NoFault == [status |-> "OK", pc |-> NoPC, hostStatus |-> "OK"]

vmVars ==
  << mode, program, running, memory, pc, callFrames, frameTop,
     hasDispatcher, fault, instructionPC, result, frameSizes >>
vars == << vmVars, timeVars >>

callVars == << callFrames, frameTop, frameSizes >>

VMInit ==
  /\ mode = "idle"
  /\ program = NoProgram
  /\ running = NoProgram
  /\ memory = [segment \in Segment |->
                 CASE segment = Frame  -> Zeroes(FrameCapacity)
                   [] OTHER            -> << >>]
  /\ pc = 0
  /\ callFrames = << >>
  /\ frameTop = 0
  /\ hasDispatcher = FALSE
  /\ fault = NoFault
  /\ instructionPC = NoPC
  /\ result = "OK"
  /\ frameSizes = << >>

Init == VMInit /\ TimeInit

-----------------------------------------------------------------------------
(* Faults.  setFault overwrites the record, recordStatus keeps the first.  *)

FaultAt(at, status) == [status |-> status, pc |-> at, hostStatus |-> "OK"]
RecordedAtInverted(at, status) ==
  IF fault.status # "OK" THEN FaultAt(at, status) ELSE fault
RecordedAt(at, status) ==
  IF fault.status = "OK" THEN FaultAt(at, status) ELSE fault

-----------------------------------------------------------------------------
(* What an instruction does to the operand stack: its status, the stack it *)
(* leaves, also when it fails half way, and whether it sets the fault or   *)
(* leaves the interpreter loop to record it.                               *)

Done(s) == [status |-> "OK", stack |-> s, sets |-> FALSE]
Records(status, s) == [status |-> status, stack |-> s, sets |-> FALSE]
Sets(status, s) == [status |-> status, stack |-> s, sets |-> TRUE]

PushedUnchecked(s, bytes) == Done(s \o bytes)
Pushed(s, bytes) ==
  IF Len(s) + Len(bytes) > StackCapacity
    THEN Sets("StackOverflow", s)
    ELSE Done(s \o bytes)

(* Popping operands of n bytes one by one until one is missing. *)
Underflow(s, n) == Records("StackUnderflow", SubSeq(s, 1, Len(s) % n))

Operand(s, n, k) == Decode(Top(Truncate(s, n * (k - 1)), n))  \* k-th from top

Quotient(a, b) ==                        \* rounds towards zero
  LET abs(x) == IF x < 0 THEN - x ELSE x
      q == abs(a) \div abs(b)
  IN  IF (a < 0) # (b < 0) THEN - q ELSE q

Calculate(op, left, right) ==
  CASE op = "Add" -> left + right
    [] op = "Sub" -> left - right
    [] op = "Mul" -> left * right
    [] op = "Div" -> Quotient(left, right)
    [] op = "Modulo" -> left - right * Quotient(left, right)

Typed(kind, bits) == IF kind = "Int32" THEN Signed(bits) ELSE bits

ArithmeticResult(s, kind, op) ==
  LET n == KindSize(kind)
      left == Typed(kind, Operand(s, n, 2))
      right == Typed(kind, Operand(s, n, 1))
      rest == Truncate(s, 2 * n)
  IN  IF kind \notin {"Bool", "Uint8", "Int32"} THEN Records("InvalidOpcode", s)
      ELSE IF Len(s) < 2 * n THEN Underflow(s, n)
      ELSE IF op \notin ArithmeticOp THEN Records("InvalidOpcode", rest)
      ELSE IF op \in {"Div", "Modulo"} /\ right = 0
             THEN Records("DivisionByZero", rest)
      ELSE Pushed(rest, Encode(n, Calculate(op, left, right)))

Truth(bits) == IF bits = 0 THEN 0 ELSE 1

Holds(op, left, right) ==
  CASE op = "Equal" -> left = right
    [] op = "NotEqual" -> left # right
    [] op = "Less" -> left < right
    [] op = "LessEqual" -> left <= right
    [] op = "Greater" -> left > right
    [] op = "GreaterEqual" -> left >= right

CompareResult(s, kind, op) ==
  LET n == KindSize(kind)
      value(bits) == IF kind = "Bool" THEN Truth(bits) ELSE Typed(kind, bits)
      left == value(Operand(s, n, 2))
      right == value(Operand(s, n, 1))
      rest == Truncate(s, 2 * n)
      ops == IF kind = "Bool" THEN {"Equal", "NotEqual"} ELSE CompareOp
  IN  IF n = 0 THEN Records("InvalidValueKind", s)
      ELSE IF Len(s) < 2 * n THEN Underflow(s, n)
      ELSE IF op \notin ops THEN Records("InvalidOpcode", rest)
      ELSE Pushed(rest, << IF Holds(op, left, right) THEN 1 ELSE 0 >>)

ConvertResult(s, from, to) ==
  LET n == KindSize(from)
      bits == Operand(s, n, 1)
      value == IF "Bool" \in {from, to} THEN Truth(bits) ELSE bits
      rest == Truncate(s, n)
  IN  IF n = 0 THEN Records("InvalidValueKind", s)
      ELSE IF Len(s) < n THEN Underflow(s, n)
      ELSE IF KindSize(to) = 0 THEN Records("InvalidValueKind", rest)
      ELSE Pushed(rest, Encode(KindSize(to), value))

PushResult(s, kind, bits) ==
  IF kind \in {"None", "Address"} THEN Sets("InvalidValueKind", s)
  ELSE IF KindSize(kind) = 0 THEN Records("InvalidValueKind", s)
  ELSE Pushed(s, Encode(KindSize(kind), bits))

FirstBase == callFrames[1].localBase
LocalBase == callFrames[Len(callFrames)].localBase

(* The address of a local is relative to the current frame. *)
AddrResult(s, segment, offset) ==
  LET base == IF segment = Frame THEN LocalBase ELSE 0
  IN  IF segment = Frame /\ callFrames = << >>
        THEN Records("InvalidLifecycle", s)
      ELSE IF base + offset > AddressIndexMask
        THEN Sets("InvalidAddress", s)
      ELSE Pushed(s, Encode(4, MakeAddress(segment, base + offset)))

OffsetResult(s) ==
  LET base == Operand(s, 4, 2)
      index == AddressIndex(base) + Signed(Operand(s, 4, 1))
      rest == Truncate(s, 8)
  IN  IF Len(s) < 8 THEN Underflow(s, 4)
      ELSE IF index \notin 0 .. AddressIndexMask
        THEN Sets("InvalidAddress", rest)
      ELSE Pushed(rest, Encode(4, MakeAddress(AddressSegment(base), index)))

(* Reading the stack segment sees the stack without the popped address. *)
DereferenceResult(s, kind) ==
  LET n == KindSize(kind)
      address == Operand(s, 4, 1)
      rest == Truncate(s, 4)
      segment == AddressSegment(address)
      source == IF segment = Stack THEN rest ELSE memory[segment]
      offset == AddressIndex(address)
  IN  IF kind = "None" THEN Sets("InvalidValueKind", s)
      ELSE IF Len(s) < 4 THEN Underflow(s, 4)
      ELSE IF segment \notin Segment THEN Sets("InvalidAddressSegment", rest)
      ELSE IF n = 0 THEN Records("InvalidValueKind", rest)
      ELSE IF ~ InSegment(source, offset, n) THEN Records("InvalidAddress", rest)
      ELSE Pushed(rest, ReadBytes(source, offset, n))

(* Only constant memory is read-only.  The bounds are checked before the   *)
(* value is popped, and for the stack segment once more after it.          *)
Writable(segment) == segment # Const

AssignResult(s, kind) ==
  LET n == KindSize(kind)
      address == Operand(s, 4, 1)
      rest == Truncate(s, 4)
      popped == Truncate(rest, n)
      segment == AddressSegment(address)
      destination == IF segment = Stack THEN rest ELSE memory[segment]
      offset == AddressIndex(address)
  IN  IF kind = "None" THEN Sets("InvalidValueKind", s)
      ELSE IF Len(s) < 4 THEN Underflow(s, 4)
      ELSE IF ~ Writable(segment) THEN Sets("ReadOnlyMemory", rest)
      ELSE IF segment \notin Segment THEN Sets("InvalidAddressSegment", rest)
      ELSE IF n = 0 THEN Sets("InvalidValueKind", rest)
      ELSE IF ~ InSegment(destination, offset, n)
        THEN Sets("InvalidAddress", rest)
      ELSE IF Len(rest) < n THEN Sets("StackUnderflow", rest)
      ELSE IF segment = Stack /\ ~ InSegment(popped, offset, n)
        THEN Sets("InvalidAddress", popped)
      ELSE Done(IF segment = Stack
                  THEN WriteBytes(popped, offset, Top(rest, n)) ELSE popped)

(* Memory after an assignment that succeeded and left stack `left`. *)
Assigned(s, kind, left) ==
  LET n == KindSize(kind)
      address == Operand(s, 4, 1)
      segment == AddressSegment(address)
      value == Top(Truncate(s, 4), n)
  IN  [memory EXCEPT
         ![Stack] = left,
         ![segment] = IF segment = Stack THEN left
                      ELSE WriteBytes(@, AddressIndex(address), value)]

-----------------------------------------------------------------------------
(* Built-ins.  The numbers of the math built-ins are abstract; how many    *)
(* operands they pop and which operands they refuse are not.  Int32 stands *)
(* for every four-byte number, the float of tickTime included.             *)

ShiftLimit == 15                  \* bits of a signed word; 31 in the code
MathBuiltIn == {"Abs", "Min", "Clamp", "Map"}
MathOperands(op) ==
  CASE op = "Abs" -> 1 [] op = "Min" -> 2 [] op = "Clamp" -> 3 [] op = "Map" -> 5

Numbers(rest, kind) ==
  { Pushed(rest, Encode(KindSize(kind), number)) : number \in MathResults }

MathOutcomes(s, kind, op) ==
  LET n == KindSize(kind)
      count == MathOperands(op)
      rest == Truncate(s, count * n)
      value(k) == Typed(kind, Operand(s, n, k))
  IN  IF n = 0 THEN { Records("InvalidValueKind", s) }
      ELSE IF Len(s) < count * n THEN { Underflow(s, n) }
      ELSE IF kind \in {"Bool", "Address"}
        THEN { Records("InvalidValueKind", rest) }
      ELSE IF op = "Clamp" /\ value(2) > value(1)
        THEN { Records("InvalidParameter", rest) }
      ELSE IF op = "Map" /\ value(4) = value(3)
        THEN { Records("DivisionByZero", rest) }
      ELSE Numbers(rest, kind)

InterpolationOutcomes(s, kind) ==
  LET n == KindSize(kind)
      values == Truncate(s, 1)
      rest == Truncate(values, 3 * n)
  IN  IF Len(s) < 1 THEN { Underflow(s, 1) }
      ELSE IF n = 0 THEN { Records("InvalidValueKind", values) }
      ELSE IF Len(values) < 3 * n THEN { Underflow(values, n) }
      ELSE IF Operand(s, 1, 1) >= ShiftLimit
        THEN { Records("InvalidParameter", rest) }
      ELSE Numbers(rest, kind)

BuiltInOutcomes(s, kind, op) ==
  CASE op = "TickTime" ->
         { IF kind = "Int32" THEN Pushed(s, Encode(4, tickTime))
           ELSE Records("InvalidValueKind", s) }
    [] op = "Random" ->
         IF kind = "Int32" THEN Numbers(s, kind)
         ELSE { Records("InvalidValueKind", s) }
    [] op = "Lerp" -> InterpolationOutcomes(s, kind)
    [] op \in MathBuiltIn -> MathOutcomes(s, kind, op)
    [] OTHER -> { Records("InvalidValueKind", s) }  \* no float kinds here

TimerBuiltIn == {"TimerStart", "TimerStop", "TimerReset", "TimerDone"}
TimerKind(op) == IF op = "TimerDone" THEN "Bool" ELSE "Void"

(* timerStart takes the slot below its four-byte duration, the others take *)
(* the slot alone.                                                         *)
SlotStack(s, op) == IF op = "TimerStart" THEN Truncate(s, 4) ELSE s

TimerResult(s, kind, op) ==
  LET below == SlotStack(s, op)
      rest == Truncate(below, 1)
      id == Operand(below, 1, 1)
  IN  IF kind # TimerKind(op) THEN Records("InvalidValueKind", s)
      ELSE IF op = "TimerStart" /\ Len(s) < 4 THEN Underflow(s, 4)
      ELSE IF Len(below) < 1 THEN Underflow(below, 1)
      ELSE IF id \notin TimerId THEN Records("InvalidParameter", rest)
      ELSE IF op = "TimerDone"
        THEN Pushed(rest, << IF TimerDone(id) THEN 1 ELSE 0 >>)
      ELSE Done(rest)

TimerEffect(s, op) ==
  LET id == Operand(SlotStack(s, op), 1, 1)
  IN  \/ op = "TimerStart" /\ TimerStart(id, Operand(s, 4, 1))
      \/ op = "TimerStop" /\ TimerStop(id)
      \/ op = "TimerReset" /\ TimerReset(id)
      \/ op = "TimerDone" /\ UNCHANGED timeVars

-----------------------------------------------------------------------------
(* Entering a function: the checks in the order of the code, then the      *)
(* frame that the callee starts with.                                      *)

Params(fn) == 1 .. fn.paramCount
ParamSize(p, fn, i) == KindSize(p.paramKinds[fn.paramStart + i])
ParamOffset(p, fn, i) == p.paramOffsets[fn.paramStart + i]

ParamsInRange(p, fn) ==
  /\ fn.paramStart + fn.paramCount <= Len(p.paramKinds)
  /\ fn.paramStart + fn.paramCount <= Len(p.paramOffsets)
ParamsFit(p, fn) ==
  \A i \in Params(fn) :
    /\ ParamSize(p, fn, i) # 0
    /\ ParamOffset(p, fn, i) + ParamSize(p, fn, i) <= fn.frameByteSize

(* The bytes of the parameters from the i-th on, counted one by one. *)
ArgumentBytes(p, fn, i) ==
  Cardinality({ slot \in Params(fn) \X (1 .. 4) :
                  slot[1] >= i /\ slot[2] <= ParamSize(p, fn, slot[1]) })

FrameFitsAlone(base, size) == size <= FrameCapacity
FrameFitsAt(base, size) == base + size <= FrameCapacity

EnterStatus(p, f, s, base, depth) ==
  IF f >= Len(p.functions) THEN "InvalidTarget" ELSE
  LET fn == p.functions[f + 1]
  IN  IF fn.bodyAddress >= Len(p.text) THEN "InvalidDescriptor"
      ELSE IF ~ (ParamsInRange(p, fn) /\ ParamsFit(p, fn))
        THEN "InvalidParameter"
      ELSE IF ArgumentBytes(p, fn, 1) > Len(s) THEN "StackUnderflow"
      ELSE IF ~ FrameFitsAt(base, fn.frameByteSize) THEN "FrameOverflow"
      ELSE IF depth >= CallFrameCapacity THEN "CallFrameOverflow"
      ELSE "OK"

(* The callee's frame is cleared and its parameters are popped into it,    *)
(* last one first, so where two overlap the first one is on top.           *)
Covering(p, fn, b) ==
  { i \in Params(fn) :
      b \in ParamOffset(p, fn, i) + 1 .. ParamOffset(p, fn, i) + ParamSize(p, fn, i) }

ArgumentByte(p, fn, s, b) ==
  LET i == CHOOSE i \in Covering(p, fn, b) :
             \A j \in Covering(p, fn, b) : i <= j
  IN  s[Len(s) - ArgumentBytes(p, fn, i) + b - ParamOffset(p, fn, i)]

EnteredFrameUncleared(p, fn, s, frame, base) ==
  [b \in 1 .. Len(frame) |->
     IF b \notin base + 1 .. base + fn.frameByteSize THEN frame[b]
     ELSE IF Covering(p, fn, b - base) = {} THEN frame[b]
     ELSE ArgumentByte(p, fn, s, b - base)]

EnteredFrame(p, fn, s, frame, base) ==
  [b \in 1 .. Len(frame) |->
     IF b \notin base + 1 .. base + fn.frameByteSize THEN frame[b]
     ELSE IF Covering(p, fn, b - base) = {} THEN 0
     ELSE ArgumentByte(p, fn, s, b - base)]

Entered(p, fn, mem, base) ==
  [mem EXCEPT
     ![Frame] = EnteredFrame(p, fn, mem[Stack], @, base),
     ![Stack] = Truncate(@, ArgumentBytes(p, fn, 1))]

Activation(fn, base, resume) ==
  [returnPC |-> resume, localBase |-> base, returnKind |-> fn.returnKind]

-----------------------------------------------------------------------------
(* One iteration of the interpreter loop, which runs the text it started   *)
(* with.                                                                   *)

Instr == running.text[pc + 1]
OperandStack == memory[Stack]

Fetch(op) ==
  /\ mode = "script"
  /\ pc < Len(running.text)
  /\ Instr.op = op
  /\ instructionPC' = pc
  /\ UNCHANGED << program, hasDispatcher >>

GoOn(target) == pc' = target /\ UNCHANGED << mode, running, fault, result >>

(* Leaving the loop; pc is dead until the next reset. *)
Leave(status, newFault) ==
  /\ mode' = "idle"
  /\ running' = NoProgram
  /\ result' = status
  /\ fault' = newFault
  /\ UNCHANGED pc

Abort(outcome) ==
  Leave(outcome.status,
        IF outcome.sets THEN FaultAt(pc, outcome.status)
        ELSE RecordedAt(pc, outcome.status))

Conclude(outcome) ==
  \/ outcome.status = "OK" /\ GoOn(pc + 1)
  \/ outcome.status # "OK" /\ Abort(outcome)

Operate(outcome) ==
  /\ Conclude(outcome)
  /\ memory' = [memory EXCEPT ![Stack] = outcome.stack]
  /\ UNCHANGED callVars

Push ==
  /\ Fetch("Push")
  /\ Operate(PushResult(OperandStack, Instr.kind, Instr.arg))
  /\ UNCHANGED timeVars

Arithmetic ==
  /\ Fetch("Arithmetic")
  /\ Operate(ArithmeticResult(OperandStack, Instr.kind, Instr.sub))
  /\ UNCHANGED timeVars

Convert ==
  /\ Fetch("Convert")
  /\ Operate(ConvertResult(OperandStack, Instr.from, Instr.kind))
  /\ UNCHANGED timeVars

Addr ==
  /\ Fetch("Addr")
  /\ Operate(AddrResult(OperandStack, Instr.segment, Instr.arg))
  /\ UNCHANGED timeVars

Offset ==
  /\ Fetch("Offset")
  /\ Operate(OffsetResult(OperandStack))
  /\ UNCHANGED timeVars

Dereference ==
  /\ Fetch("Dereference")
  /\ Operate(DereferenceResult(OperandStack, Instr.kind))
  /\ UNCHANGED timeVars

Compare ==
  /\ Fetch("Compare")
  /\ Operate(CompareResult(OperandStack, Instr.kind, Instr.sub))
  /\ UNCHANGED timeVars

Assign ==
  /\ Fetch("Assign")
  /\ LET outcome == AssignResult(OperandStack, Instr.kind)
     IN  /\ Conclude(outcome)
         /\ memory' = IF outcome.status = "OK"
                        THEN Assigned(OperandStack, Instr.kind, outcome.stack)
                        ELSE [memory EXCEPT ![Stack] = outcome.stack]
  /\ UNCHANGED << callVars, timeVars >>

BuiltIn ==
  /\ Fetch("BuiltIn")
  /\ Instr.sub \notin TimerBuiltIn
  /\ \E outcome \in BuiltInOutcomes(OperandStack, Instr.kind, Instr.sub) :
       Operate(outcome)
  /\ UNCHANGED timeVars

Timer ==
  /\ Fetch("BuiltIn")
  /\ Instr.sub \in TimerBuiltIn
  /\ LET outcome == TimerResult(OperandStack, Instr.kind, Instr.sub)
     IN  /\ Operate(outcome)
         /\ \/ outcome.status # "OK" /\ UNCHANGED timeVars
            \/ outcome.status = "OK" /\ TimerEffect(OperandStack, Instr.sub)

JumpTo(target, stack) ==
  /\ memory' = [memory EXCEPT ![Stack] = stack]
  /\ \/ target < Len(running.text) /\ GoOn(target)
     \/ target >= Len(running.text) /\ Abort(Sets("InvalidTarget", stack))

Jump ==
  /\ Fetch("Jump")
  /\ JumpTo(Instr.arg, OperandStack)
  /\ UNCHANGED << callVars, timeVars >>

JumpIfFalse ==
  /\ Fetch("JumpIfFalse")
  /\ \/ /\ Len(OperandStack) < 1
        /\ Operate(Underflow(OperandStack, 1))
     \/ /\ Len(OperandStack) >= 1
        /\ Operand(OperandStack, 1, 1) # 0
        /\ Operate(Done(Truncate(OperandStack, 1)))
     \/ /\ Len(OperandStack) >= 1
        /\ Operand(OperandStack, 1, 1) = 0
        /\ JumpTo(Instr.arg, Truncate(OperandStack, 1))
        /\ UNCHANGED callVars
  /\ UNCHANGED timeVars

PushFrame(frames, sizes, fn, base, resume) ==
  /\ callFrames' = Append(frames, Activation(fn, base, resume))
  /\ frameSizes' = Append(sizes, fn.frameByteSize)
  /\ frameTop' = base + fn.frameByteSize

PCOfCall == pc
PCAfterCall == pc + 1

(* The callee is looked up in the loaded program, not in the running one. *)
Call ==
  /\ Fetch("Call")
  /\ LET status == EnterStatus(program, Instr.arg, OperandStack, frameTop,
                               Len(callFrames))
         fn == program.functions[Instr.arg + 1]
     IN  \/ /\ status = "OK"
            /\ GoOn(fn.bodyAddress)
            /\ memory' = Entered(program, fn, memory, frameTop)
            /\ PushFrame(callFrames, frameSizes, fn, frameTop, PCAfterCall)
         \/ /\ status # "OK"
            /\ Abort(Sets(status, OperandStack))
            /\ UNCHANGED << memory, callVars >>
  /\ UNCHANGED timeVars

CallExtern ==
  /\ Fetch("CallExtern")
  /\ \/ /\ ~ hasDispatcher
        /\ Abort(Sets("MissingExtern", OperandStack))
     \/ /\ hasDispatcher
        /\ mode' = "host"
        /\ pc' = pc + 1
        /\ UNCHANGED << running, fault, result >>
  /\ UNCHANGED << memory, callVars, timeVars >>

NoActivation == Len(callFrames) = 0
LastActivation == Len(callFrames) = 1

BelowTop(s) == SubSeq(s, 1, Len(s) - 1)

(* The result stays on the stack; a return whose result is missing has     *)
(* already given up its call frame but not its frame memory.               *)
Ret ==
  /\ Fetch("Ret")
  /\ \/ /\ callFrames = << >>
        /\ Abort(Records("InvalidLifecycle", OperandStack))
        /\ UNCHANGED callVars
     \/ /\ callFrames # << >>
        /\ callFrames' = BelowTop(callFrames)
        /\ frameSizes' = BelowTop(frameSizes)
        /\ LET frame == callFrames[Len(callFrames)]
           IN  \/ /\ Len(OperandStack) < KindSize(frame.returnKind)
                  /\ Abort(Records("StackUnderflow", OperandStack))
                  /\ UNCHANGED frameTop
               \/ /\ Len(OperandStack) >= KindSize(frame.returnKind)
                  /\ frameTop' = frame.localBase
                  /\ \/ LastActivation /\ Leave("OK", fault)
                     \/ ~ LastActivation /\ GoOn(frame.returnPC)
  /\ UNCHANGED << memory, timeVars >>

Unknown ==
  /\ Fetch("Unknown")
  /\ Abort(Sets("InvalidOpcode", OperandStack))
  /\ UNCHANGED << memory, callVars, timeVars >>

(* The text ends inside the instruction. *)
Truncated ==
  /\ Fetch("Truncated")
  /\ Abort(Records("MalformedBytecode", OperandStack))
  /\ UNCHANGED << memory, callVars, timeVars >>

EndOfText ==
  /\ mode = "script"
  /\ pc >= Len(running.text)
  /\ Leave("OK", fault)
  /\ UNCHANGED << program, hasDispatcher, instructionPC, memory, callVars,
                  timeVars >>

Execute ==
  \/ Push \/ Arithmetic \/ Convert \/ Addr \/ Offset \/ Dereference \/ Assign
  \/ Compare \/ Jump \/ JumpIfFalse \/ Call \/ CallExtern \/ Ret \/ BuiltIn
  \/ Timer \/ Unknown \/ Truncated \/ EndOfText

-----------------------------------------------------------------------------
(* The host, between runs or inside a dispatcher call. *)

HostActs == mode \in {"idle", "host"}
HostMayReload == mode = "idle" \/ (mode = "host" /\ HostReloads)

HostStackOperation(outcome) ==
  /\ HostActs
  /\ memory' = [memory EXCEPT ![Stack] = outcome.stack]
  /\ fault' = IF outcome.status = "OK" THEN fault
              ELSE IF outcome.sets THEN FaultAt(instructionPC, outcome.status)
              ELSE RecordedAt(instructionPC, outcome.status)
  /\ UNCHANGED << mode, program, running, pc, callVars, hasDispatcher,
                  instructionPC, result, timeVars >>

HostPush(kind, value) ==
  HostStackOperation(
    IF KindSize(kind) = 0 THEN Records("InvalidValueKind", OperandStack)
    ELSE Pushed(OperandStack, Encode(KindSize(kind), value)))

HostPop(kind) ==
  HostStackOperation(
    IF KindSize(kind) = 0 THEN Records("InvalidValueKind", OperandStack)
    ELSE IF Len(OperandStack) < KindSize(kind)
      THEN Records("StackUnderflow", OperandStack)
    ELSE Done(Truncate(OperandStack, KindSize(kind))))

SetExtern(bytes) ==
  /\ HostActs
  /\ memory' = [memory EXCEPT ![Extern] = bytes]
  /\ UNCHANGED << mode, program, running, pc, callVars, hasDispatcher, fault,
                  instructionPC, result, timeVars >>

AllocateExternMemory(size) == SetExtern(Zeroes(size))

StoreExternInt32(offset, value) ==
  /\ InSegment(memory[Extern], offset, 4)     \* ignored when out of bounds
  /\ SetExtern(WriteBytes(memory[Extern], offset, Encode(4, value)))

RegisterExternDispatcher ==
  /\ HostActs
  /\ hasDispatcher' \in BOOLEAN
  /\ UNCHANGED << mode, program, running, memory, pc, callVars, fault,
                  instructionPC, result, timeVars >>

(* What LoadProgram and Reset return goes to the host's caller: the result *)
(* of a run in progress is not theirs.                                     *)
Returns(status) ==
  /\ result' = IF mode = "idle" THEN status ELSE result
  /\ fault' = IF status = "OK" THEN NoFault ELSE FaultAt(NoPC, status)
  /\ instructionPC' = NoPC

LoadStatus(p) ==
  IF p = NoProgram THEN "InvalidProgram"
  ELSE IF p.constByteSize # Len(p.constData) THEN "InvalidImage"
  ELSE IF p.dataByteSize # Len(p.dataData) THEN "InvalidImage"
  ELSE "OK"

Grown(segment, size) ==
  IF Len(segment) >= size THEN segment ELSE Zeroes(size)
Resized(segment, size) ==
  IF Len(segment) = size THEN segment ELSE Zeroes(size)

LoadProgram(p) ==
  /\ HostMayReload
  /\ Returns(LoadStatus(p))
  /\ \/ /\ LoadStatus(p) = "OK"
        /\ program' = p
        /\ memory' = [memory EXCEPT ![BSS] = Resized(@, p.bssByteSize),
                                    ![Data] = Resized(@, p.dataByteSize),
                                    ![Const] = p.constData]
     \/ LoadStatus(p) # "OK" /\ UNCHANGED << program, memory >>
  /\ UNCHANGED << mode, running, pc, callVars, hasDispatcher, timeVars >>

ResetStatus(p) ==
  IF p.entryPoint >= Len(p.functions) THEN "InvalidTarget"
  ELSE IF p.functions[p.entryPoint + 1].paramCount # 0 THEN "InvalidDescriptor"
  ELSE EnterStatus(p, p.entryPoint, << >>, 0, 0)

ResetMemoryKeepsStack(p) ==
  [memory EXCEPT ![BSS] = Zeroes(Len(@)),
                 ![Data] = [i \in 1 .. Len(@) |->
                              IF i <= Len(p.dataData) THEN p.dataData[i] ELSE @[i]],
                 ![Frame] = Zeroes(Len(@))]

ResetMemory(p) ==
  [memory EXCEPT ![BSS] = Zeroes(Len(@)),
                 ![Data] = [i \in 1 .. Len(@) |->
                              IF i <= Len(p.dataData) THEN p.dataData[i] ELSE @[i]],
                 ![Frame] = Zeroes(Len(@)),
                 ![Stack] = << >>]

(* The globals, the stack and the frames are wiped even when the entry     *)
(* point then turns out to be unusable.                                    *)
ResetState ==
  LET fn == program.functions[program.entryPoint + 1]
  IN  \/ /\ ResetStatus(program) = "OK"
         /\ pc' = fn.bodyAddress
         /\ memory' = Entered(program, fn, ResetMemory(program), 0)
         /\ PushFrame(<< >>, << >>, fn, 0, 0)
      \/ /\ ResetStatus(program) # "OK"
         /\ pc' = 0
         /\ memory' = ResetMemory(program)
         /\ callFrames' = << >>
         /\ frameSizes' = << >>
         /\ frameTop' = 0

ResetVM ==
  /\ HostMayReload
  /\ \/ /\ program = NoProgram
        /\ Returns("NoProgramLoaded")
        /\ UNCHANGED << memory, pc, callVars >>
     \/ /\ program # NoProgram
        /\ Returns(ResetStatus(program))
        /\ ResetState
  /\ UNCHANGED << mode, program, running, hasDispatcher >>

ResetForgetsTime ==
  /\ ResetVM
  /\ hasCurrentTime' = FALSE
  /\ UNCHANGED << currentTime, tickTime, timers >>

Reset == ResetVM /\ UNCHANGED timeVars

(* Reset first, then the time: a run refused because the time goes back    *)
(* has reset the program all the same.                                     *)
RunLoaded(now) ==
  /\ mode = "idle"
  /\ UNCHANGED << program, hasDispatcher >>
  /\ \/ /\ program = NoProgram
        /\ Returns("NoProgramLoaded")
        /\ UNCHANGED << mode, running, memory, pc, callVars, timeVars >>
     \/ /\ program # NoProgram
        /\ ResetState
        /\ \/ /\ ResetStatus(program) # "OK"
              /\ Returns(ResetStatus(program))
              /\ UNCHANGED << mode, running, timeVars >>
           \/ /\ ResetStatus(program) = "OK"
              /\ TimeGoesBack(now)
              /\ Returns("InvalidParameter")
              /\ UNCHANGED << mode, running, timeVars >>
           \/ /\ ResetStatus(program) = "OK"
              /\ BeginTick(now)
              /\ mode' = "script"
              /\ running' = program
              /\ result' = "Running"
              /\ fault' = NoFault
              /\ instructionPC' = NoPC

(* The dispatcher returns.  Its failure is reported at the instruction, or *)
(* at 0 when it has reset the VM meanwhile.                                *)
HostReturn(status) ==
  /\ mode = "host"
  /\ \/ /\ status = "OK"
        /\ mode' = "script"
        /\ UNCHANGED << running, pc, fault, result >>
     \/ /\ status # "OK"
        /\ Leave("HostFailure",
                 [status |-> "HostFailure", hostStatus |-> status,
                  pc |-> IF instructionPC = NoPC THEN 0 ELSE instructionPC])
  /\ UNCHANGED << program, hasDispatcher, instructionPC, memory, callVars,
                  timeVars >>

Host ==
  \/ \E kind \in HostKinds : HostPop(kind) \/ \E value \in HostValues :
                                                HostPush(kind, value)
  \/ \E size \in ExternSizes : AllocateExternMemory(size)
  \/ \E offset \in HostOffsets, value \in HostValues :
       StoreExternInt32(offset, value)
  \/ RegisterExternDispatcher
  \/ \E p \in Programs \cup {NoProgram} : LoadProgram(p)
  \/ Reset
  \/ \E now \in Times : RunLoaded(now)
  \/ \E status \in HostStatuses \cup {"OK"} : HostReturn(status)

Next == Execute \/ Host

Spec == Init /\ [][Next]_vars

-----------------------------------------------------------------------------
(* Every variable is in its range; in particular no sequence of bytecode   *)
(* and host calls overruns the stack, the frame memory or the call frames, *)
(* and a byte is always a byte.                                            *)
Bytes == Seq(Byte)

TypeOK ==
  /\ mode \in {"idle", "script", "host"}
  /\ program \in Programs \cup {NoProgram}
  /\ running \in Programs \cup {NoProgram}
  /\ memory \in [Segment -> Bytes]
  /\ Len(memory[Frame]) = FrameCapacity
  /\ Len(memory[Stack]) <= StackCapacity
  /\ pc \in Nat
  /\ callFrames \in Seq([returnPC : Nat, localBase : Nat, returnKind : Kind])
  /\ frameTop \in Nat
  /\ hasDispatcher \in BOOLEAN
  /\ fault \in [status : Status, pc : Nat \cup {NoPC}, hostStatus : Status]
  /\ instructionPC \in Nat \cup {NoPC}
  /\ result \in Status \cup {"Running"}
  /\ frameSizes \in Seq(Nat)
  /\ TimeTypeOK

(* Call frames, frame memory and the frame top move together: while a run  *)
(* is on, the frames in use lie one after the other from address 0, each   *)
(* as large as its function asks for, and end exactly at the frame top.    *)
FrameEnd(i) == callFrames[i].localBase + frameSizes[i]

FramesTile ==
  mode # "idle" =>
    /\ Len(frameSizes) = Len(callFrames)
    /\ Len(callFrames) <= CallFrameCapacity
    /\ \A i \in 1 .. Len(callFrames) :
         callFrames[i].localBase = IF i = 1 THEN 0 ELSE FrameEnd(i - 1)
    /\ frameTop = IF callFrames = << >> THEN 0 ELSE FrameEnd(Len(callFrames))
    /\ frameTop <= FrameCapacity

(* The interpreter never executes an instruction outside an activation, so *)
(* the two invalid-lifecycle exits of the loop are unreachable - as long   *)
(* as the dispatcher does not reset the VM under the running script.       *)
AlwaysActive ==
  ~ HostReloads => /\ mode # "idle" => callFrames # << >>
                   /\ result # "InvalidLifecycle"

(* No run, load or reset fails silently: a status other than success comes *)
(* with a recorded fault, whichever of the two reporting paths it took.    *)
FailureIsRecorded ==
  result \notin {"OK", "Running"} => fault.status # "OK"

(* The memory the VM addresses is the one the loaded program was laid out  *)
(* for, after any mixture of good and refused loads: every global address  *)
(* of the program is in bounds, and the constants are the program's, which *)
(* no script has written through an address.                               *)
LoadedSegments ==
  program # NoProgram =>
    /\ Len(memory[BSS]) = program.bssByteSize
    /\ Len(memory[Data]) = Len(program.dataData)
    /\ memory[Const] = program.constData

(* A run depends on nothing an earlier run left behind except extern       *)
(* memory, clock and timers: it starts from the initial globals, an empty  *)
(* stack and zero locals, after a run that faulted at any instruction too. *)
RunStartsFromProgram ==
  [][ mode = "idle" /\ mode' = "script" =>
        /\ memory'[BSS] = Zeroes(program.bssByteSize)
        /\ memory'[Data] = program.dataData
        /\ memory'[Frame] = Zeroes(FrameCapacity)
        /\ memory'[Stack] = << >>
        /\ Len(callFrames') = 1
        /\ fault' = NoFault ]_vars

(* The interpreter and the dispatcher are never held up for good.          *)
FairSpec ==
  /\ Spec
  /\ WF_vars(Execute)
  /\ WF_vars(\E status \in HostStatuses \cup {"OK"} : HostReturn(status))

(* A run of a program without backward jumps ends: a chain of calls, also  *)
(* a recursive one, either returns or runs out of call frames.             *)
RunTerminates == (mode # "idle") ~> (mode = "idle")
=============================================================================
