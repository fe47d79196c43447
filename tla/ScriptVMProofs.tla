--------------------------- MODULE ScriptVMProofs ---------------------------
(***************************************************************************)
(* Types and frames of the virtual machine, for all programs, capacities   *)
(* and hosts: no bytecode and no sequence of host calls makes the VM leave *)
(* its stack, its frame memory or its call frames.                         *)
(***************************************************************************)
EXTENDS InstructionProofs

-----------------------------------------------------------------------------
(* The inductive invariant: TypeOK in parts, and a run has a program.  A   *)
(* call looks its callee up in the loaded program, the loop fetches from   *)
(* the program it started with, so both must be there.                     *)

FaultInfo == [status : Status, pc : Nat \cup {NoPC}, hostStatus : Status]

FlowType ==
  /\ mode \in {"idle", "script", "host"}
  /\ running \in Programs \cup {NoProgram}
  /\ mode # "idle" => running \in Programs
  /\ pc \in Nat
  /\ fault \in FaultInfo
  /\ result \in Status \cup {"Running"}

LoadType ==
  /\ program \in Programs \cup {NoProgram}
  /\ mode # "idle" => program \in Programs
  /\ hasDispatcher \in BOOLEAN
  /\ instructionPC \in Nat \cup {NoPC}

CallsType ==
  /\ callFrames \in Seq(FrameType)
  /\ frameTop \in Nat
  /\ frameSizes \in Seq(Nat)

TypeInv ==
  FlowType /\ LoadType /\ CallsType /\ memory \in Memory /\ TimeTypeOK

LEMMA TypeInvImplies == TypeInv => TypeOK
BY DEF TypeInv, TypeOK, FlowType, LoadType, CallsType, FaultInfo, FrameType,
       Memory, Bytes

-----------------------------------------------------------------------------
(* How an instruction ends. *)

LEMMA FaultRecorded ==
  ASSUME fault \in FaultInfo, NEW status \in Status,
         NEW at \in Nat \cup {NoPC}
  PROVE  /\ FaultAt(at, status) \in FaultInfo
         /\ RecordedAt(at, status) \in FaultInfo
         /\ NoFault \in FaultInfo
BY DEF FaultAt, RecordedAt, FaultInfo, NoFault, Status

LEMMA FetchedInstruction ==
  ASSUME TypeInv, NEW op, Fetch(op)
  PROVE  /\ Instr \in Instruction
         /\ mode = "script"
         /\ running \in Programs
         /\ program \in Programs
         /\ OperandStack \in StackBytes
<1>1. mode = "script" /\ running \in Programs /\ program \in Programs /\ pc \in Nat
  BY DEF TypeInv, FlowType, LoadType, Fetch
<1>2. running.text \in Seq(Instruction)
  BY <1>1, VMAssumption DEF LinkedProgram
<1>3. pc < Len(running.text)
  BY DEF Fetch
<1>4. Instr \in Instruction
  BY <1>1, <1>2, <1>3 DEF Instr
<1>5. OperandStack \in StackBytes
  BY DEF TypeInv, Memory, StackBytes, OperandStack, Segment, Stack
<1>6. QED
  BY <1>1, <1>4, <1>5

LEMMA LeaveType ==
  ASSUME TypeInv, NEW status \in Status, NEW newFault \in FaultInfo,
         Leave(status, newFault)
  PROVE  FlowType' /\ mode' = "idle"
BY DEF TypeInv, FlowType, Leave

LEMMA AbortType ==
  ASSUME TypeInv, NEW outcome \in Outcome, Abort(outcome)
  PROVE  FlowType' /\ mode' = "idle"
<1>1. outcome.status \in Status
  BY DEF Outcome
<1>2. fault \in FaultInfo /\ pc \in Nat \cup {NoPC}
  BY DEF TypeInv, FlowType
<1>3. (IF outcome.sets THEN FaultAt(pc, outcome.status)
       ELSE RecordedAt(pc, outcome.status)) \in FaultInfo
  BY <1>1, <1>2, FaultRecorded
<1>4. QED
  BY <1>1, <1>3, LeaveType DEF Abort

LEMMA GoOnType ==
  ASSUME TypeInv, NEW target \in Nat, GoOn(target)
  PROVE  FlowType' /\ mode' = mode
BY DEF TypeInv, FlowType, GoOn

LEMMA ConcludeType ==
  ASSUME TypeInv, NEW outcome \in Outcome, Conclude(outcome)
  PROVE  FlowType' /\ (mode' = mode \/ mode' = "idle")
<1>1. pc + 1 \in Nat
  BY DEF TypeInv, FlowType
<1>2. QED
  BY <1>1, GoOnType, AbortType DEF Conclude

(* The program and the dispatcher stay; the instruction's position is kept. *)
LEMMA FetchType ==
  ASSUME TypeInv, NEW op, Fetch(op), mode' \in {mode, "host", "idle"}
  PROVE  LoadType'
BY DEF TypeInv, FlowType, LoadType, Fetch

LEMMA OperateType ==
  ASSUME TypeInv, NEW op, Fetch(op), NEW outcome \in Outcome, Operate(outcome)
  PROVE  FlowType' /\ LoadType' /\ CallsType' /\ memory' \in Memory
<1>1. FlowType' /\ (mode' = mode \/ mode' = "idle")
  BY ConcludeType DEF Operate
<1>2. LoadType'
  BY <1>1, FetchType
<1>3. CallsType'
  BY DEF TypeInv, CallsType, Operate, callVars
<1>4. memory' \in Memory
  <2>1. outcome.stack \in StackBytes /\ memory \in Memory
    BY DEF Outcome, TypeInv
  <2>2. QED
    BY <2>1, MemoryStack DEF Operate
<1>5. QED
  BY <1>1, <1>2, <1>3, <1>4

LEMMA TimeKept ==
  ASSUME TypeInv, UNCHANGED timeVars
  PROVE  TimeTypeOK'
BY DEF TypeInv, TimeTypeOK, timeVars

-----------------------------------------------------------------------------
(* Each instruction preserves the invariant. *)

LEMMA StackInstructionType ==
  ASSUME TypeInv,
         Push \/ Arithmetic \/ Convert \/ Addr \/ Offset \/ Dereference \/ Compare
  PROVE  TypeInv'
<1> DEFINE s == OperandStack
<1> SUFFICES ASSUME NEW op, Fetch(op), NEW outcome \in Outcome,
                    Operate(outcome), UNCHANGED timeVars
             PROVE  TypeInv'
  <2>1. ASSUME NEW op, Fetch(op)
        PROVE  /\ s \in StackBytes /\ memory \in Memory
               /\ Instr.kind \in Kind /\ Instr.from \in Kind
               /\ Instr.segment \in 0 .. 15 /\ Instr.arg \in Nat
               /\ callFrames \in Seq(FrameType)
    BY <2>1, FetchedInstruction DEF TypeInv, CallsType, Instruction
  <2>2. ASSUME Push
        PROVE  PushResult(s, Instr.kind, Instr.arg) \in Outcome
    BY <2>1, <2>2, PushType DEF Push
  <2>3. ASSUME Arithmetic
        PROVE  ArithmeticResult(s, Instr.kind, Instr.sub) \in Outcome
    BY <2>1, <2>3, ArithmeticType DEF Arithmetic
  <2>4. ASSUME Convert
        PROVE  ConvertResult(s, Instr.from, Instr.kind) \in Outcome
    BY <2>1, <2>4, ConvertType DEF Convert
  <2>5. ASSUME Addr
        PROVE  AddrResult(s, Instr.segment, Instr.arg) \in Outcome
    BY <2>1, <2>5, AddrType DEF Addr
  <2>6. ASSUME Offset
        PROVE  OffsetResult(s) \in Outcome
    BY <2>1, <2>6, OffsetType DEF Offset
  <2>7. ASSUME Dereference
        PROVE  DereferenceResult(s, Instr.kind) \in Outcome
    BY <2>1, <2>7, DereferenceType DEF Dereference
  <2>8. ASSUME Compare
        PROVE  CompareResult(s, Instr.kind, Instr.sub) \in Outcome
    BY <2>1, <2>8, CompareType DEF Compare
  <2>9. QED
    BY <2>2, <2>3, <2>4, <2>5, <2>6, <2>7, <2>8
       DEF Push, Arithmetic, Convert, Addr, Offset, Dereference, Compare
<1>1. FlowType' /\ LoadType' /\ CallsType' /\ memory' \in Memory
  BY OperateType
<1>2. TimeTypeOK'
  BY TimeKept
<1>3. QED
  BY <1>1, <1>2 DEF TypeInv

LEMMA BuiltInStep ==
  ASSUME TypeInv, BuiltIn
  PROVE  TypeInv'
<1>1. Fetch("BuiltIn") /\ UNCHANGED timeVars
  BY DEF BuiltIn
<1>2. OperandStack \in StackBytes /\ Instr.kind \in Kind /\ tickTime \in Nat
  BY <1>1, FetchedInstruction DEF Instruction, TypeInv, TimeTypeOK
<1>3. BuiltInOutcomes(OperandStack, Instr.kind, Instr.sub) \subseteq Outcome
  BY <1>2, BuiltInType
<1>4. PICK outcome \in BuiltInOutcomes(OperandStack, Instr.kind, Instr.sub) :
        Operate(outcome)
  BY DEF BuiltIn
<1>5. outcome \in Outcome
  BY <1>3
<1>6. FlowType' /\ LoadType' /\ CallsType' /\ memory' \in Memory
  BY <1>1, <1>4, <1>5, OperateType
<1>7. QED
  BY <1>1, <1>6, TimeKept DEF TypeInv

LEMMA TimerStep ==
  ASSUME TypeInv, Timer
  PROVE  TypeInv'
<1> DEFINE op == Instr.sub
           outcome == TimerResult(OperandStack, Instr.kind, op)
           id == Operand(SlotStack(OperandStack, op), 1, 1)
           duration == Operand(OperandStack, 4, 1)
<1>1. Fetch("BuiltIn") /\ op \in TimerBuiltIn /\ Operate(outcome)
  BY DEF Timer
<1>2. OperandStack \in StackBytes /\ Instr.kind \in Kind
  BY <1>1, FetchedInstruction DEF Instruction
<1>3. /\ outcome \in Outcome
      /\ outcome.status = "OK" =>
           /\ id \in TimerId
           /\ op = "TimerStart" => duration \in Word
  BY <1>1, <1>2, TimerType
<1>4. FlowType' /\ LoadType' /\ CallsType' /\ memory' \in Memory
  BY <1>1, <1>3, OperateType
<1>5. CASE outcome.status # "OK"
  BY <1>4, <1>5, TimeKept DEF Timer, TypeInv
<1>6. CASE outcome.status = "OK"
  <2>1. TimerEffect(OperandStack, op)
    BY <1>6 DEF Timer
  <2>2. TimeTypeOK
    BY DEF TypeInv
  <2>3. CASE op = "TimerStart" /\ TimerStart(id, duration)
    <3>1. duration \in 0 .. MaxTime
      <4>1. duration \in Word
        BY <1>3, <1>6, <2>3
      <4> HIDE DEF duration
      <4>2. duration \in Int /\ 0 <= duration /\ duration <= 65535
        BY <4>1, WordIsInt
      <4>3. MaxTime \in Int /\ 65535 <= MaxTime
        BY VMAssumption, TimeAssumption, WordMax
      <4>4. QED
        BY <4>2, <4>3
    <3>2. QED
      BY <1>3, <1>4, <1>6, <2>2, <2>3, <3>1, TimerStartType DEF TypeInv
  <2>4. CASE TimerStop(id)
    BY <1>3, <1>4, <1>6, <2>2, <2>4, TimerStopType DEF TypeInv
  <2>5. CASE TimerReset(id)
    BY <1>3, <1>4, <1>6, <2>2, <2>5, TimerResetType DEF TypeInv
  <2>6. CASE UNCHANGED timeVars
    BY <1>4, <2>6, TimeKept DEF TypeInv
  <2>7. QED
    BY <2>1, <2>3, <2>4, <2>5, <2>6 DEF TimerEffect
<1>7. QED
  BY <1>5, <1>6

LEMMA AssignStep ==
  ASSUME TypeInv, Assign
  PROVE  TypeInv'
<1> DEFINE outcome == AssignResult(OperandStack, Instr.kind)
<1>1. Fetch("Assign") /\ Conclude(outcome) /\ UNCHANGED << callVars, timeVars >>
  BY DEF Assign
<1>2. OperandStack \in StackBytes /\ Instr.kind \in Kind /\ memory \in Memory
  BY <1>1, FetchedInstruction DEF Instruction, TypeInv
<1>3. outcome \in Outcome
  BY <1>2, AssignType
<1>4. FlowType' /\ (mode' = mode \/ mode' = "idle")
  BY <1>1, <1>3, ConcludeType
<1>5. LoadType'
  BY <1>1, <1>4, FetchType
<1>6. CallsType' /\ TimeTypeOK'
  BY <1>1, TimeKept DEF TypeInv, CallsType, callVars
<1>7. memory' \in Memory
  <2>1. CASE outcome.status = "OK"
    <3>1. memory' = Assigned(OperandStack, Instr.kind, outcome.stack)
      BY <2>1 DEF Assign
    <3>2. QED
      BY <1>2, <2>1, <3>1, AssignedType
  <2>2. CASE outcome.status # "OK"
    <3>1. memory' = [memory EXCEPT ![Stack] = outcome.stack]
      BY <2>2 DEF Assign
    <3>2. outcome.stack \in StackBytes
      BY <1>3 DEF Outcome
    <3>3. QED
      BY <1>2, <3>1, <3>2, MemoryStack
  <2>3. QED
    BY <2>1, <2>2
<1>8. QED
  BY <1>4, <1>5, <1>6, <1>7 DEF TypeInv

LEMMA JumpToType ==
  ASSUME TypeInv, NEW op, Fetch(op), NEW target \in Nat,
         NEW s \in StackBytes, JumpTo(target, s), UNCHANGED << callVars, timeVars >>
  PROVE  TypeInv'
<1>1. FlowType' /\ (mode' = mode \/ mode' = "idle")
  <2>1. Sets("InvalidTarget", s) \in Outcome
    BY OutcomeMade DEF Status
  <2>2. QED
    BY <2>1, GoOnType, AbortType DEF JumpTo
<1>2. LoadType'
  BY <1>1, FetchType
<1>3. memory' \in Memory
  BY MemoryStack DEF JumpTo, TypeInv
<1>4. CallsType' /\ TimeTypeOK'
  BY TimeKept DEF TypeInv, CallsType, callVars
<1>5. QED
  BY <1>1, <1>2, <1>3, <1>4 DEF TypeInv

LEMMA JumpStep ==
  ASSUME TypeInv, Jump
  PROVE  TypeInv'
<1>1. Fetch("Jump") /\ JumpTo(Instr.arg, OperandStack)
        /\ UNCHANGED << callVars, timeVars >>
  BY DEF Jump
<1>2. OperandStack \in StackBytes /\ Instr.arg \in Nat
  BY <1>1, FetchedInstruction DEF Instruction
<1>3. QED
  BY <1>1, <1>2, JumpToType

LEMMA JumpIfFalseStep ==
  ASSUME TypeInv, JumpIfFalse
  PROVE  TypeInv'
<1> DEFINE s == OperandStack
<1>1. Fetch("JumpIfFalse") /\ UNCHANGED timeVars
  BY DEF JumpIfFalse
<1>2. s \in StackBytes /\ Len(s) \in Nat /\ Instr.arg \in Nat
  BY <1>1, FetchedInstruction DEF Instruction, StackBytes
<1>3. ASSUME Len(s) >= 1
      PROVE  Truncate(s, 1) \in StackBytes
  BY <1>2, <1>3, TruncateStack
<1>4. ASSUME NEW outcome \in Outcome, Operate(outcome)
      PROVE  TypeInv'
  BY <1>1, <1>4, OperateType, TimeKept DEF TypeInv
<1>5. CASE Len(s) < 1 /\ Operate(Underflow(s, 1))
  BY <1>2, <1>4, <1>5, UnderflowType
<1>6. CASE Len(s) >= 1 /\ Operate(Done(Truncate(s, 1)))
  BY <1>3, <1>4, <1>6, DoneMade
<1>7. CASE Len(s) >= 1 /\ JumpTo(Instr.arg, Truncate(s, 1)) /\ UNCHANGED callVars
  BY <1>1, <1>2, <1>3, <1>7, JumpToType
<1>8. QED
  BY <1>5, <1>6, <1>7 DEF JumpIfFalse

(* A frame more, at the frame top. *)
LEMMA PushFrameType ==
  ASSUME NEW frames \in Seq(FrameType), NEW sizes \in Seq(Nat),
         NEW fn \in Function, NEW base \in Nat, NEW resume \in Nat,
         PushFrame(frames, sizes, fn, base, resume)
  PROVE  CallsType'
<1>1. fn.frameByteSize \in Nat /\ fn.returnKind \in Kind
  BY DEF Function
<1>2. Activation(fn, base, resume) \in FrameType
  BY <1>1 DEF Activation, FrameType
<1>3. QED
  BY <1>1, <1>2 DEF PushFrame, CallsType

LEMMA EnterStatusType ==
  ASSUME NEW p, NEW f, NEW s, NEW base, NEW depth
  PROVE  EnterStatus(p, f, s, base, depth) \in Status
BY DEF EnterStatus, Status

LEMMA CallStep ==
  ASSUME TypeInv, Call
  PROVE  TypeInv'
<1> DEFINE status == EnterStatus(program, Instr.arg, OperandStack, frameTop,
                                 Len(callFrames))
           fn == program.functions[Instr.arg + 1]
<1>1. Fetch("Call") /\ UNCHANGED timeVars
  BY DEF Call
<1>2. /\ program \in LinkedProgram /\ Instr.arg \in Nat
      /\ OperandStack \in StackBytes /\ OperandStack \in Seq(Byte)
      /\ memory \in Memory /\ memory[Stack] = OperandStack
      /\ pc \in Nat /\ callFrames \in Seq(FrameType) /\ Len(callFrames) \in Nat
      /\ frameSizes \in Seq(Nat) /\ frameTop \in Nat
  BY <1>1, FetchedInstruction, VMAssumption
     DEF Instruction, TypeInv, FlowType, CallsType, OperandStack, StackBytes
<1>3. CASE status = "OK"
  <2>1. fn \in Function
    BY <1>2, <1>3, EnterChecked
  <2>2. /\ GoOn(fn.bodyAddress)
        /\ memory' = Entered(program, fn, memory, frameTop)
        /\ PushFrame(callFrames, frameSizes, fn, frameTop, PCAfterCall)
    BY <1>3 DEF Call
  <2>3. fn.bodyAddress \in Nat /\ PCAfterCall \in Nat
    BY <1>2, <2>1 DEF Function, PCAfterCall
  <2>4. FlowType' /\ mode' = mode
    BY <2>2, <2>3, GoOnType
  <2>5. memory' \in Memory
    BY <1>2, <1>3, <2>2, EnteredType
  <2>6. CallsType'
    <3> HIDE DEF fn
    <3>1. QED
      BY <1>2, <2>1, <2>2, <2>3, PushFrameType
  <2>7. QED
    BY <1>1, <2>4, <2>5, <2>6, FetchType, TimeKept DEF TypeInv
<1>4. CASE status # "OK"
  <2>1. Abort(Sets(status, OperandStack)) /\ UNCHANGED << memory, callVars >>
    BY <1>4 DEF Call
  <2>2. Sets(status, OperandStack) \in Outcome
    BY <1>2, EnterStatusType, OutcomeMade
  <2>3. FlowType' /\ mode' = "idle"
    BY <2>1, <2>2, AbortType
  <2>4. memory' \in Memory /\ CallsType'
    BY <1>2, <2>1 DEF CallsType, callVars
  <2>5. QED
    BY <1>1, <2>3, <2>4, FetchType, TimeKept DEF TypeInv
<1>5. QED
  BY <1>3, <1>4

LEMMA CallExternStep ==
  ASSUME TypeInv, CallExtern
  PROVE  TypeInv'
<1>1. Fetch("CallExtern") /\ UNCHANGED << memory, callVars, timeVars >>
  BY DEF CallExtern
<1>2. /\ OperandStack \in StackBytes /\ running \in Programs
      /\ pc + 1 \in Nat /\ FlowType
  BY <1>1, FetchedInstruction DEF TypeInv, FlowType
<1>3. FlowType' /\ mode' \in {"host", "idle"}
  <2>1. CASE Abort(Sets("MissingExtern", OperandStack))
    <3>1. Sets("MissingExtern", OperandStack) \in Outcome
      BY <1>2, OutcomeMade DEF Status
    <3>2. QED
      BY <2>1, <3>1, AbortType
  <2>2. CASE mode' = "host" /\ pc' = pc + 1 /\ UNCHANGED << running, fault, result >>
    BY <1>2, <2>2 DEF FlowType
  <2>3. QED
    BY <2>1, <2>2 DEF CallExtern
<1>4. LoadType'
  BY <1>1, <1>3, FetchType
<1>5. CallsType' /\ memory' \in Memory /\ TimeTypeOK'
  BY <1>1, TimeKept DEF TypeInv, CallsType, callVars
<1>6. QED
  BY <1>3, <1>4, <1>5 DEF TypeInv

LEMMA BelowTopType ==
  ASSUME NEW S, NEW s \in Seq(S)
  PROVE  BelowTop(s) \in Seq(S)
BY DEF BelowTop

LEMMA RetStep ==
  ASSUME TypeInv, Ret
  PROVE  TypeInv'
<1> DEFINE frame == callFrames[Len(callFrames)]
<1>1. Fetch("Ret") /\ UNCHANGED << memory, timeVars >>
  BY DEF Ret
<1>2. /\ OperandStack \in StackBytes /\ FlowType /\ CallsType
      /\ mode = "script" /\ memory \in Memory
  BY <1>1, FetchedInstruction DEF TypeInv
<1>3. /\ Records("InvalidLifecycle", OperandStack) \in Outcome
      /\ Records("StackUnderflow", OperandStack) \in Outcome
  BY <1>2, OutcomeMade DEF Status
<1>4. CASE callFrames = << >>
  <2>1. Abort(Records("InvalidLifecycle", OperandStack)) /\ UNCHANGED callVars
    BY <1>4 DEF Ret
  <2>2. FlowType' /\ mode' = "idle"
    BY <1>3, <2>1, AbortType
  <2>3. CallsType' /\ memory' \in Memory
    BY <1>1, <1>2, <2>1 DEF CallsType, callVars
  <2>4. QED
    BY <1>1, <2>2, <2>3, FetchType, TimeKept DEF TypeInv
<1>5. CASE callFrames # << >>
  <2>1. frame \in FrameType
    BY <1>2, <1>5 DEF CallsType
  <2>2. callFrames' \in Seq(FrameType) /\ frameSizes' \in Seq(Nat)
    BY <1>2, <1>5, BelowTopType DEF CallsType, Ret
  <2>3. FlowType' /\ frameTop' \in Nat /\ (mode' = mode \/ mode' = "idle")
    <3>1. CASE /\ Abort(Records("StackUnderflow", OperandStack))
               /\ UNCHANGED frameTop
      BY <1>2, <1>3, <3>1, AbortType DEF CallsType
    <3>2. CASE frameTop' = frame.localBase /\ Leave("OK", fault)
      <4>1. fault \in FaultInfo /\ "OK" \in Status
        BY <1>2 DEF FlowType, Status
      <4>2. QED
        BY <2>1, <3>2, <4>1, LeaveType DEF FrameType
    <3>3. CASE frameTop' = frame.localBase /\ GoOn(frame.returnPC)
      BY <2>1, <3>3, GoOnType DEF FrameType
    <3>4. QED
      BY <1>5, <3>1, <3>2, <3>3 DEF Ret
  <2>4. QED
    BY <1>1, <1>2, <2>2, <2>3, FetchType, TimeKept DEF TypeInv, CallsType
<1>6. QED
  BY <1>4, <1>5

LEMMA EndStep ==
  ASSUME TypeInv, Unknown \/ Truncated \/ EndOfText
  PROVE  TypeInv'
<1>1. UNCHANGED << memory, callVars, timeVars >> /\ UNCHANGED << program, hasDispatcher >>
  BY DEF Unknown, Truncated, EndOfText, Fetch
<1>2. OperandStack \in StackBytes /\ pc \in Nat /\ instructionPC \in Nat \cup {NoPC}
      /\ fault \in FaultInfo
  BY DEF TypeInv, FlowType, LoadType, OperandStack, Memory, StackBytes, Segment, Stack
<1>3. /\ Sets("InvalidOpcode", OperandStack) \in Outcome
      /\ Records("MalformedBytecode", OperandStack) \in Outcome
      /\ "OK" \in Status
  BY <1>2, OutcomeMade DEF Status
<1>4. FlowType' /\ mode' = "idle"
  BY <1>2, <1>3, AbortType, LeaveType DEF Unknown, Truncated, EndOfText
<1>5. instructionPC' \in Nat \cup {NoPC}
  BY <1>2 DEF Unknown, Truncated, EndOfText, Fetch
<1>6. LoadType'
  BY <1>1, <1>4, <1>5 DEF TypeInv, LoadType
<1>7. CallsType' /\ memory' \in Memory /\ TimeTypeOK'
  BY <1>1, TimeKept DEF TypeInv, CallsType, callVars
<1>8. QED
  BY <1>4, <1>6, <1>7 DEF TypeInv

-----------------------------------------------------------------------------
(* Each operation of the host preserves the invariant. *)

LEMMA HostStackType ==
  ASSUME TypeInv, NEW outcome \in Outcome, HostStackOperation(outcome)
  PROVE  TypeInv'
<1>1. outcome.stack \in StackBytes /\ outcome.status \in Status
  BY DEF Outcome
<1>2. memory' \in Memory
  BY <1>1, MemoryStack DEF TypeInv, HostStackOperation
<1>3. fault' \in FaultInfo
  <2>1. fault \in FaultInfo /\ instructionPC \in Nat \cup {NoPC}
    BY DEF TypeInv, FlowType, LoadType
  <2>2. QED
    BY <1>1, <2>1, FaultRecorded DEF HostStackOperation
<1>4. FlowType' /\ LoadType' /\ CallsType' /\ TimeTypeOK'
  BY <1>3, TimeKept
     DEF HostStackOperation, TypeInv, FlowType, LoadType, CallsType, callVars
<1>5. QED
  BY <1>2, <1>4 DEF TypeInv

LEMMA HostPopStep ==
  ASSUME TypeInv, NEW kind \in HostKinds, HostPop(kind)
  PROVE  TypeInv'
<1> DEFINE s == OperandStack
           n == KindSize(kind)
           outcome == IF n = 0 THEN Records("InvalidValueKind", s)
                      ELSE IF Len(s) < n THEN Records("StackUnderflow", s)
                      ELSE Done(Truncate(s, n))
<1>1. s \in StackBytes /\ Len(s) \in Nat
  BY DEF TypeInv, OperandStack, Memory, StackBytes, Segment, Stack
<1>2. n \in {0, 1, 4}
  BY KindSizes, VMAssumption
<1>3. ASSUME ~ (Len(s) < n)
      PROVE  Truncate(s, n) \in StackBytes
  <2>1. n \in 0 .. Len(s)
    BY <1>1, <1>2, <1>3
  <2>2. QED
    BY <1>1, <2>1, TruncateStack
<1>4. /\ Records("InvalidValueKind", s) \in Outcome
      /\ Records("StackUnderflow", s) \in Outcome
      /\ ~ (Len(s) < n) => Done(Truncate(s, n)) \in Outcome
  BY <1>1, <1>3, OutcomeMade, DoneMade DEF Status
<1>5. outcome \in Outcome
  BY <1>4
<1>6. HostStackOperation(outcome)
  BY DEF HostPop
<1>7. QED
  BY <1>5, <1>6, HostStackType

LEMMA HostPushStep ==
  ASSUME TypeInv, NEW kind \in HostKinds, NEW value \in HostValues,
         HostPush(kind, value)
  PROVE  TypeInv'
<1> DEFINE s == OperandStack
           n == KindSize(kind)
           outcome == IF n = 0 THEN Records("InvalidValueKind", s)
                      ELSE Pushed(s, Encode(n, value))
<1>1. s \in StackBytes /\ value \in Int
  BY VMAssumption DEF TypeInv, OperandStack, Memory, StackBytes, Segment, Stack
<1>2. n \in {0, 1, 4}
  BY KindSizes, VMAssumption
<1>3. n # 0 => Encode(n, value) \in Seq(Byte)
  BY <1>1, <1>2, EncodeBytes
<1>4. outcome \in Outcome
  BY <1>1, <1>3, OutcomeMade, PushedType DEF Status
<1>5. HostStackOperation(outcome)
  BY DEF HostPush
<1>6. QED
  BY <1>4, <1>5, HostStackType

(* Changing one segment other than the frames and the stack. *)
LEMMA MemorySegment ==
  ASSUME NEW m \in Memory, NEW segment \in Segment \ {Frame, Stack},
         NEW bytes \in Seq(Byte)
  PROVE  [m EXCEPT ![segment] = bytes] \in Memory
<1>1. [m EXCEPT ![segment] = bytes] \in [Segment -> Seq(Byte)]
  BY DEF Memory
<1>2. /\ [m EXCEPT ![segment] = bytes][Frame] = m[Frame]
      /\ [m EXCEPT ![segment] = bytes][Stack] = m[Stack]
  BY DEF Memory, Segment, Frame, Stack
<1>3. QED
  BY <1>1, <1>2 DEF Memory

LEMMA SetExternStep ==
  ASSUME TypeInv, NEW bytes \in Seq(Byte), SetExtern(bytes)
  PROVE  TypeInv'
<1>1. Extern \in Segment \ {Frame, Stack}
  BY DEF Extern, Segment, Frame, Stack
<1>2. memory' \in Memory
  BY <1>1, MemorySegment DEF TypeInv, SetExtern
<1>3. QED
  BY <1>2, TimeKept
     DEF SetExtern, TypeInv, FlowType, LoadType, CallsType, callVars

LEMMA AllocateStep ==
  ASSUME TypeInv, NEW size \in ExternSizes, AllocateExternMemory(size)
  PROVE  TypeInv'
<1>1. Zeroes(size) \in Seq(Byte)
  BY ZeroesBytes, VMAssumption
<1>2. QED
  BY <1>1, SetExternStep DEF AllocateExternMemory

LEMMA StoreExternStep ==
  ASSUME TypeInv, NEW offset \in HostOffsets, NEW value \in HostValues,
         StoreExternInt32(offset, value)
  PROVE  TypeInv'
<1>1. memory[Extern] \in Seq(Byte) /\ offset \in Nat /\ value \in Int
  BY VMAssumption DEF TypeInv, Memory, Extern, Segment
<1>2. Encode(4, value) \in Seq(Byte)
  BY <1>1, EncodeBytes
<1>3. WriteBytes(memory[Extern], offset, Encode(4, value)) \in Seq(Byte)
  BY <1>1, <1>2, WriteBytesRange
<1>4. QED
  BY <1>3, SetExternStep DEF StoreExternInt32

LEMMA RegisterStep ==
  ASSUME TypeInv, RegisterExternDispatcher
  PROVE  TypeInv'
BY TimeKept
   DEF RegisterExternDispatcher, TypeInv, FlowType, LoadType, CallsType, callVars

LEMMA ReturnsType ==
  ASSUME TypeInv, NEW status \in Status, Returns(status)
  PROVE  /\ result' \in Status \cup {"Running"}
         /\ fault' \in FaultInfo
         /\ instructionPC' \in Nat \cup {NoPC}
<1>1. fault \in FaultInfo /\ result \in Status \cup {"Running"}
  BY DEF TypeInv, FlowType
<1>2. FaultAt(NoPC, status) \in FaultInfo /\ NoFault \in FaultInfo
  BY <1>1, FaultRecorded
<1>3. QED
  BY <1>1, <1>2 DEF Returns

LEMMA ResizedBytes ==
  ASSUME NEW s \in Seq(Byte), NEW size \in Nat
  PROVE  Resized(s, size) \in Seq(Byte)
BY ZeroesBytes DEF Resized

LEMMA LoadStep ==
  ASSUME TypeInv, NEW p \in Programs \cup {NoProgram}, LoadProgram(p)
  PROVE  TypeInv'
<1>1. LoadStatus(p) \in Status
  BY DEF LoadStatus, Status
<1>2. /\ result' \in Status \cup {"Running"} /\ fault' \in FaultInfo
      /\ instructionPC' \in Nat \cup {NoPC}
  BY <1>1, ReturnsType DEF LoadProgram
<1>3. memory' \in Memory /\ (program' = program \/ program' \in Programs)
  <2>1. CASE LoadStatus(p) # "OK" /\ UNCHANGED << program, memory >>
    BY <2>1 DEF TypeInv
  <2>2. CASE /\ LoadStatus(p) = "OK"
             /\ program' = p
             /\ memory' = [memory EXCEPT ![BSS] = Resized(@, p.bssByteSize),
                                         ![Data] = Resized(@, p.dataByteSize),
                                         ![Const] = p.constData]
    <3>1. p \in Programs /\ p \in LinkedProgram
      BY <2>2, VMAssumption DEF LoadStatus
    <3>2. /\ p.bssByteSize \in Nat /\ p.dataByteSize \in Nat
          /\ p.constData \in Seq(Byte)
      BY <3>1 DEF LinkedProgram
    <3>3. memory \in Memory /\ memory[BSS] \in Seq(Byte) /\ memory[Data] \in Seq(Byte)
      BY DEF TypeInv, Memory, BSS, Data, Segment
    <3> DEFINE bss == Resized(memory[BSS], p.bssByteSize)
               data == Resized(memory[Data], p.dataByteSize)
               m1 == [memory EXCEPT ![BSS] = bss]
               m2 == [m1 EXCEPT ![Data] = data]
               m3 == [m2 EXCEPT ![Const] = p.constData]
    <3>4. bss \in Seq(Byte) /\ data \in Seq(Byte)
      BY <3>2, <3>3, ResizedBytes
    <3>5. {BSS, Data, Const} \subseteq Segment \ {Frame, Stack}
      BY DEF BSS, Data, Const, Segment, Frame, Stack
    <3> HIDE DEF bss, data
    <3>6. m1 \in Memory
      BY <3>3, <3>4, <3>5, MemorySegment
    <3> HIDE DEF m1
    <3>7. m2 \in Memory
      BY <3>4, <3>5, <3>6, MemorySegment
    <3> HIDE DEF m2
    <3>8. m3 \in Memory
      BY <3>2, <3>5, <3>7, MemorySegment
    <3>9. memory' = m3
      BY <2>2, <3>3 DEF bss, data, m1, m2, Memory, BSS, Data, Const
    <3>10. QED
      BY <2>2, <3>1, <3>8, <3>9
  <2>3. QED
    BY <2>1, <2>2 DEF LoadProgram
<1>4. FlowType' /\ LoadType' /\ CallsType'
  BY <1>2, <1>3 DEF LoadProgram, TypeInv, FlowType, LoadType, CallsType, callVars
<1>5. TimeTypeOK'
  BY TimeKept DEF LoadProgram
<1>6. QED
  BY <1>3, <1>4, <1>5 DEF TypeInv

LEMMA ResetMemoryType ==
  ASSUME NEW p \in LinkedProgram, memory \in Memory
  PROVE  ResetMemory(p) \in Memory /\ ResetMemory(p)[Stack] = << >>
<1> DEFINE bss == Zeroes(Len(memory[BSS]))
           data == [i \in 1 .. Len(memory[Data]) |->
                      IF i <= Len(p.dataData) THEN p.dataData[i] ELSE memory[Data][i]]
           frame == Zeroes(Len(memory[Frame]))
           m == ResetMemory(p)
<1>1. /\ memory \in [Segment -> Seq(Byte)]
      /\ \A segment \in {BSS, Data, Frame} : memory[segment] \in Seq(Byte)
      /\ Len(memory[Frame]) = FrameCapacity
  BY DEF Memory, Segment, BSS, Data, Frame
<1>2. bss \in Seq(Byte)
  BY <1>1, ZeroesBytes
<1>3. frame \in Seq(Byte) /\ Len(frame) = FrameCapacity
  BY <1>1, ZeroesBytes
<1>4. data \in Seq(Byte)
  <2>1. p.dataData \in Seq(Byte) /\ memory[Data] \in Seq(Byte)
    BY <1>1 DEF LinkedProgram
  <2>2. data \in [1 .. Len(memory[Data]) -> Byte]
    BY <2>1
  <2>3. QED
    BY <2>1, <2>2, BytesFromFunction
<1>5. m = [memory EXCEPT ![BSS] = bss, ![Data] = data, ![Frame] = frame,
                         ![Stack] = << >>]
  BY <1>1 DEF ResetMemory, BSS, Data, Frame, Stack
<1> HIDE DEF bss, data, frame, m
<1>6. m \in [Segment -> Seq(Byte)]
  <2>1. [memory EXCEPT ![BSS] = bss, ![Data] = data] \in [Segment -> Seq(Byte)]
    BY <1>1, <1>2, <1>4
  <2>2. << >> \in Seq(Byte)
    OBVIOUS
  <2>3. QED
    BY <1>3, <1>5, <2>1, <2>2
<1>7. m[Frame] = frame /\ m[Stack] = << >>
  BY <1>1, <1>5 DEF BSS, Data, Frame, Stack, Segment
<1>8. QED
  BY <1>3, <1>6, <1>7, VMAssumption DEF Memory, m

(* Resetting leaves either one activation or none. *)
LEMMA ResetStateType ==
  ASSUME TypeInv, program \in Programs, ResetState
  PROVE  /\ ResetStatus(program) \in Status
         /\ pc' \in Nat
         /\ memory' \in Memory
         /\ CallsType'
<1>1. /\ program \in LinkedProgram /\ memory \in Memory
      /\ program.entryPoint \in Nat
  BY VMAssumption DEF TypeInv, LinkedProgram
<1>2. ResetMemory(program) \in Memory /\ ResetMemory(program)[Stack] = << >>
  BY <1>1, ResetMemoryType
<1>3. ResetStatus(program) \in Status
  BY EnterStatusType DEF ResetStatus, Status
<1>4. CASE ResetStatus(program) = "OK"
  <2> DEFINE fn == program.functions[program.entryPoint + 1]
  <2>0. EnterStatus(program, program.entryPoint, << >>, 0, 0) = "OK"
    BY <1>4 DEF ResetStatus
  <2>1. EnterStatus(program, program.entryPoint, ResetMemory(program)[Stack], 0, 0)
          = "OK"
    BY <1>2, <2>0
  <2>2. fn \in Function
    <3>1. << >> \in Seq(Byte) /\ 0 \in Nat
      OBVIOUS
    <3>2. QED
      BY <1>1, <2>0, <3>1, EnterChecked
  <2>3. /\ pc' = fn.bodyAddress
        /\ memory' = Entered(program, fn, ResetMemory(program), 0)
        /\ PushFrame(<< >>, << >>, fn, 0, 0)
    BY <1>4 DEF ResetState
  <2>4. memory' \in Memory
    BY <1>1, <1>2, <2>1, <2>3, EnteredType
  <2>5. CallsType'
    <3>1. << >> \in Seq(FrameType) /\ << >> \in Seq(Nat)
      OBVIOUS
    <3> HIDE DEF fn
    <3>2. QED
      BY <2>2, <2>3, <3>1, PushFrameType
  <2>6. QED
    BY <1>3, <2>2, <2>3, <2>4, <2>5 DEF Function
<1>5. CASE ResetStatus(program) # "OK"
  <2>1. pc' = 0 /\ memory' = ResetMemory(program)
          /\ callFrames' = << >> /\ frameSizes' = << >> /\ frameTop' = 0
    BY <1>5 DEF ResetState
  <2>2. CallsType'
    BY <2>1 DEF CallsType
  <2>3. QED
    BY <1>2, <1>3, <2>1, <2>2
<1>6. QED
  BY <1>4, <1>5

LEMMA ResetStep ==
  ASSUME TypeInv, Reset
  PROVE  TypeInv'
<1>1. /\ UNCHANGED << mode, program, running, hasDispatcher >>
      /\ UNCHANGED timeVars /\ ResetVM
  BY DEF Reset, ResetVM
<1>2. TimeTypeOK'
  BY <1>1, TimeKept
<1>3. CASE /\ Returns("NoProgramLoaded")
           /\ UNCHANGED << memory, pc, callVars >>
  <2>1. "NoProgramLoaded" \in Status
    BY DEF Status
  <2>2. QED
    BY <1>1, <1>2, <1>3, <2>1, ReturnsType
       DEF TypeInv, FlowType, LoadType, CallsType, callVars
<1>4. CASE /\ program # NoProgram
           /\ Returns(ResetStatus(program)) /\ ResetState
  <2>1. program \in Programs
    BY <1>4 DEF TypeInv, LoadType
  <2>2. /\ ResetStatus(program) \in Status
        /\ pc' \in Nat /\ memory' \in Memory /\ CallsType'
    BY <1>4, <2>1, ResetStateType
  <2>3. QED
    BY <1>1, <1>2, <1>4, <2>2, ReturnsType DEF TypeInv, FlowType, LoadType
<1>5. QED
  BY <1>1, <1>3, <1>4 DEF ResetVM

LEMMA RunStep ==
  ASSUME TypeInv, NEW now \in Times, RunLoaded(now)
  PROVE  TypeInv'
<1>1. mode = "idle" /\ UNCHANGED << program, hasDispatcher >>
  BY DEF RunLoaded
<1>2. CASE program = NoProgram
  <2>1. /\ Returns("NoProgramLoaded") /\ "NoProgramLoaded" \in Status
        /\ UNCHANGED << mode, running, memory, pc, callVars, timeVars >>
    BY <1>2 DEF RunLoaded, Status
  <2>2. QED
    BY <1>1, <2>1, ReturnsType, TimeKept
       DEF TypeInv, FlowType, LoadType, CallsType, callVars
<1>3. CASE program # NoProgram
  <2>1. program \in Programs /\ ResetState
    BY <1>3 DEF TypeInv, LoadType, RunLoaded
  <2>2. /\ ResetStatus(program) \in Status
        /\ pc' \in Nat /\ memory' \in Memory /\ CallsType'
    BY <2>1, ResetStateType
  <2>3. ASSUME NEW status \in Status, Returns(status),
               UNCHANGED << mode, running, timeVars >>
        PROVE  TypeInv'
    BY <1>1, <2>2, <2>3, ReturnsType, TimeKept DEF TypeInv, FlowType, LoadType
  <2>4. ASSUME BeginTick(now), mode' = "script", running' = program,
               result' = "Running", fault' = NoFault, instructionPC' = NoPC
        PROVE  TypeInv'
    <3>1. TimeTypeOK'
      BY <2>4, BeginTickType DEF TypeInv
    <3>2. NoFault \in FaultInfo
      BY FaultRecorded DEF NoFault, FaultInfo, Status
    <3>3. QED
      BY <1>1, <2>1, <2>2, <2>4, <3>1, <3>2 DEF TypeInv, FlowType, LoadType
  <2>5. "InvalidParameter" \in Status
    BY DEF Status
  <2>6. QED
    BY <1>3, <2>2, <2>3, <2>4, <2>5 DEF RunLoaded
<1>4. QED
  BY <1>2, <1>3

LEMMA HostReturnStep ==
  ASSUME TypeInv, NEW status \in HostStatuses \cup {"OK"}, HostReturn(status)
  PROVE  TypeInv'
<1>1. /\ mode = "host"
      /\ UNCHANGED << program, hasDispatcher, instructionPC, memory, callVars,
                      timeVars >>
  BY DEF HostReturn
<1>2. FlowType' /\ mode' \in {"script", "idle"}
  <2>1. CASE mode' = "script" /\ UNCHANGED << running, pc, fault, result >>
    BY <1>1, <2>1 DEF TypeInv, FlowType
  <2> DEFINE newFault ==
               [status |-> "HostFailure", hostStatus |-> status,
                pc |-> IF instructionPC = NoPC THEN 0 ELSE instructionPC]
  <2>2. CASE Leave("HostFailure", newFault)
    <3>1. status \in Status /\ "HostFailure" \in Status
      BY VMAssumption DEF Status
    <3>2. newFault \in FaultInfo
      BY <3>1 DEF FaultInfo, TypeInv, LoadType
    <3>3. QED
      BY <2>2, <3>1, <3>2, LeaveType
  <2>3. QED
    BY <2>1, <2>2 DEF HostReturn
<1>3. LoadType' /\ CallsType' /\ memory' \in Memory /\ TimeTypeOK'
  BY <1>1, TimeKept DEF TypeInv, LoadType, CallsType, callVars
<1>4. QED
  BY <1>2, <1>3 DEF TypeInv

-----------------------------------------------------------------------------
(* The initial state, a stutter, and the theorem. *)

LEMMA TypeInvInit == Init => TypeInv
<1> SUFFICES ASSUME Init PROVE TypeInv
  OBVIOUS
<1>1. TimeTypeOK
  BY TimeTypeInit DEF Init
<1>2. memory \in Memory
  <2>1. Zeroes(FrameCapacity) \in Seq(Byte) /\ Len(Zeroes(FrameCapacity)) = FrameCapacity
    BY ZeroesBytes, VMAssumption
  <2>2. << >> \in Seq(Byte)
    OBVIOUS
  <2>3. memory \in [Segment -> Seq(Byte)]
    BY <2>1, <2>2 DEF Init, VMInit
  <2>4. memory[Frame] = Zeroes(FrameCapacity) /\ memory[Stack] = << >>
    BY DEF Init, VMInit, Segment, Frame, Stack
  <2>5. QED
    BY <2>1, <2>3, <2>4, VMAssumption DEF Memory
<1>3. FlowType /\ LoadType
  BY DEF Init, VMInit, FlowType, LoadType, NoFault, FaultInfo, Status
<1>4. CallsType
  BY DEF Init, VMInit, CallsType
<1>5. QED
  BY <1>1, <1>2, <1>3, <1>4 DEF TypeInv

LEMMA TypeInvStep == TypeInv /\ [Next]_vars => TypeInv'
<1> SUFFICES ASSUME TypeInv, [Next]_vars PROVE TypeInv'
  OBVIOUS
<1>1. CASE UNCHANGED vars
  BY <1>1, TimeKept
     DEF vars, vmVars, TypeInv, FlowType, LoadType, CallsType
<1>2. CASE Execute
  BY <1>2, StackInstructionType, BuiltInStep, TimerStep, AssignStep, JumpStep,
     JumpIfFalseStep, CallStep, CallExternStep, RetStep, EndStep DEF Execute
<1>3. CASE Host
  BY <1>3, HostPopStep, HostPushStep, AllocateStep, StoreExternStep,
     RegisterStep, LoadStep, ResetStep, RunStep, HostReturnStep DEF Host
<1>4. QED
  BY <1>1, <1>2, <1>3 DEF Next

(* Whatever bytecode the loaded programs hold and whatever the host does,  *)
(* every variable keeps its range: the operand stack and the frame memory  *)
(* stay within the capacities of the configuration, and a byte is a byte.  *)
THEOREM TypeCorrect == Spec => []TypeOK
<1>1. Spec => []TypeInv
  BY TypeInvInit, TypeInvStep, PTL DEF Spec
<1>2. QED
  BY <1>1, TypeInvImplies, PTL

-----------------------------------------------------------------------------
(* The call frames tile the frame memory.  FramesTile says this of the     *)
(* frames in use, by the state's variables.                                *)
Tiled(frames, sizes, top) ==
  /\ Len(sizes) = Len(frames)
  /\ Len(frames) <= CallFrameCapacity
  /\ \A i \in 1 .. Len(frames) :
       frames[i].localBase =
         IF i = 1 THEN 0 ELSE frames[i - 1].localBase + sizes[i - 1]
  /\ top = IF frames = << >> THEN 0
           ELSE frames[Len(frames)].localBase + sizes[Len(frames)]
  /\ top <= FrameCapacity

LEMMA TiledFrames ==
  /\ FramesTile <=> (mode # "idle" => Tiled(callFrames, frameSizes, frameTop))
  /\ FramesTile' <=>
       (mode' # "idle" => Tiled(callFrames', frameSizes', frameTop'))
BY DEF FramesTile, Tiled, FrameEnd

LEMMA TiledEmpty == Tiled(<< >>, << >>, 0)
BY VMAssumption DEF Tiled

(* A frame that the checks of an entry let in lies at the frame top. *)
LEMMA TiledPush ==
  ASSUME NEW frames \in Seq(FrameType), NEW sizes \in Seq(Nat), NEW top \in Nat,
         Tiled(frames, sizes, top), NEW frame \in FrameType, NEW size \in Nat,
         frame.localBase = top, top + size <= FrameCapacity,
         Len(frames) < CallFrameCapacity
  PROVE  Tiled(Append(frames, frame), Append(sizes, size), top + size)
<1> DEFINE n == Len(frames)
           more == Append(frames, frame)
           moreSizes == Append(sizes, size)
<1>1. n \in Nat /\ Len(sizes) = n /\ CallFrameCapacity \in Nat
  BY VMAssumption DEF Tiled
<1>2. /\ Len(more) = n + 1 /\ Len(moreSizes) = n + 1
      /\ more[n + 1] = frame /\ moreSizes[n + 1] = size
      /\ \A i \in 1 .. n : more[i] = frames[i] /\ moreSizes[i] = sizes[i]
  BY <1>1
<1>3. ASSUME NEW i \in 1 .. n + 1
      PROVE  more[i].localBase =
               IF i = 1 THEN 0 ELSE more[i - 1].localBase + moreSizes[i - 1]
  <2>1. CASE i \in 1 .. n
    <3>1. i = 1 \/ i - 1 \in 1 .. n
      BY <1>1, <2>1
    <3>2. QED
      BY <1>2, <2>1, <3>1 DEF Tiled
  <2>2. CASE i = n + 1 /\ n = 0
    <3>1. frames = << >>
      BY <2>2
    <3>2. QED
      BY <1>2, <2>2, <3>1 DEF Tiled
  <2>3. CASE i = n + 1 /\ n # 0
    <3>1. n \in 1 .. n /\ i - 1 = n /\ i # 1 /\ frames # << >>
      BY <1>1, <2>3
    <3>2. top = frames[n].localBase + sizes[n]
      BY <3>1 DEF Tiled
    <3>3. QED
      BY <1>2, <2>3, <3>1, <3>2
  <2>4. QED
    BY <1>1, <2>1, <2>2, <2>3
<1>4. more # << >>
  BY <1>1, <1>2
<1>5. Len(more) <= CallFrameCapacity
  BY <1>1, <1>2
<1> HIDE DEF more, moreSizes
<1>6. Tiled(more, moreSizes, top + size)
  BY <1>1, <1>2, <1>3, <1>4, <1>5 DEF Tiled
<1>7. QED
  BY <1>6 DEF more, moreSizes

(* Giving up the topmost frame lowers the frame top to its base. *)
LEMMA TiledPop ==
  ASSUME NEW frames \in Seq(FrameType), NEW sizes \in Seq(Nat), NEW top \in Nat,
         Tiled(frames, sizes, top), frames # << >>
  PROVE  Tiled(BelowTop(frames), BelowTop(sizes), frames[Len(frames)].localBase)
<1> DEFINE n == Len(frames)
           fewer == BelowTop(frames)
           fewerSizes == BelowTop(sizes)
           base == frames[n].localBase
<1>1. n \in Nat \ {0} /\ Len(sizes) = n /\ n <= CallFrameCapacity
        /\ CallFrameCapacity \in Nat
  BY VMAssumption DEF Tiled
<1>2. /\ Len(fewer) = n - 1 /\ Len(fewerSizes) = n - 1
      /\ \A i \in 1 .. n - 1 : fewer[i] = frames[i] /\ fewerSizes[i] = sizes[i]
  <2>1. fewer = SubSeq(frames, 1, n - 1) /\ fewerSizes = SubSeq(sizes, 1, n - 1)
    BY <1>1 DEF BelowTop
  <2>2. Len(fewer) = n - 1 /\ \A i \in 1 .. n - 1 : fewer[i] = frames[i]
    BY <1>1, <2>1
  <2>3. Len(fewerSizes) = n - 1 /\ \A i \in 1 .. n - 1 : fewerSizes[i] = sizes[i]
    BY <1>1, <2>1
  <2>4. QED
    BY <2>2, <2>3
<1>3. base = IF n = 1 THEN 0 ELSE frames[n - 1].localBase + sizes[n - 1]
  <2>1. n \in 1 .. Len(frames)
    BY <1>1
  <2>2. \A i \in 1 .. Len(frames) :
          frames[i].localBase =
            IF i = 1 THEN 0 ELSE frames[i - 1].localBase + sizes[i - 1]
    BY DEF Tiled
  <2> HIDE DEF n
  <2>3. frames[n].localBase =
          IF n = 1 THEN 0 ELSE frames[n - 1].localBase + sizes[n - 1]
    BY <2>1, <2>2
  <2>4. QED
    BY <2>3
<1>4. base <= FrameCapacity
  <2>1. frames[n] \in FrameType /\ sizes[n] \in Nat
    BY <1>1
  <2>2. base \in Nat /\ top = base + sizes[n] /\ top <= FrameCapacity
    BY <2>1 DEF Tiled, FrameType
  <2>3. QED
    BY <2>1, <2>2, VMAssumption
<1>5. ASSUME NEW i \in 1 .. n - 1
      PROVE  fewer[i].localBase =
               IF i = 1 THEN 0 ELSE fewer[i - 1].localBase + fewerSizes[i - 1]
  <2>1. i \in 1 .. n /\ (i = 1 \/ i - 1 \in 1 .. n - 1)
    BY <1>1
  <2>2. QED
    BY <1>2, <2>1 DEF Tiled
<1>6. base = IF fewer = << >> THEN 0
             ELSE fewer[n - 1].localBase + fewerSizes[n - 1]
  <2>1. CASE n = 1
    <3>1. fewer = << >>
      BY <2>1, <1>1 DEF BelowTop
    <3>2. QED
      BY <1>3, <2>1, <3>1
  <2>2. CASE n # 1
    <3>1. n - 1 \in 1 .. n - 1 /\ fewer # << >>
      BY <1>1, <1>2, <2>2
    <3>2. QED
      BY <1>2, <1>3, <2>2, <3>1
  <2>3. QED
    BY <2>1, <2>2
<1> HIDE DEF fewer, fewerSizes, base
<1>7. Tiled(fewer, fewerSizes, base)
  BY <1>1, <1>2, <1>4, <1>5, <1>6 DEF Tiled
<1>8. QED
  BY <1>7 DEF fewer, fewerSizes, base

-----------------------------------------------------------------------------
(* The steps. *)

LEMMA FramesKept ==
  ASSUME FramesTile, UNCHANGED callVars, mode' = "idle" \/ mode # "idle"
  PROVE  FramesTile'
BY TiledFrames DEF callVars

LEMMA CallTiles ==
  ASSUME TypeInv, FramesTile, Call
  PROVE  FramesTile'
<1> DEFINE status == EnterStatus(program, Instr.arg, OperandStack, frameTop,
                                 Len(callFrames))
           fn == program.functions[Instr.arg + 1]
<1>1. Fetch("Call") /\ mode = "script"
  BY DEF Call, Fetch
<1>2. CASE status # "OK"
  <2>1. UNCHANGED callVars
    BY <1>2 DEF Call
  <2>2. QED
    BY <1>1, <2>1, FramesKept
<1>3. CASE status = "OK"
  <2>1. /\ program \in LinkedProgram /\ Instr.arg \in Nat
        /\ OperandStack \in Seq(Byte) /\ pc + 1 \in Nat
        /\ callFrames \in Seq(FrameType) /\ Len(callFrames) \in Nat
        /\ frameSizes \in Seq(Nat) /\ frameTop \in Nat
    BY <1>1, FetchedInstruction, VMAssumption
       DEF Instruction, TypeInv, FlowType, CallsType, StackBytes
  <2>2. /\ fn \in Function
        /\ frameTop + fn.frameByteSize <= FrameCapacity
        /\ Len(callFrames) < CallFrameCapacity
    BY <1>3, <2>1, EnterChecked
  <2>3. PushFrame(callFrames, frameSizes, fn, frameTop, pc + 1)
    BY <1>3 DEF Call, PCAfterCall
  <2> HIDE DEF fn
  <2> DEFINE frame == Activation(fn, frameTop, pc + 1)
  <2>4. /\ frame \in FrameType /\ frame.localBase = frameTop
        /\ fn.frameByteSize \in Nat
    BY <2>1, <2>2 DEF Activation, FrameType, Function
  <2>5. Tiled(callFrames, frameSizes, frameTop)
    BY <1>1, TiledFrames
  <2> HIDE DEF frame
  <2>6. Tiled(Append(callFrames, frame), Append(frameSizes, fn.frameByteSize),
              frameTop + fn.frameByteSize)
    BY <2>1, <2>2, <2>4, <2>5, TiledPush
  <2>7. Tiled(callFrames', frameSizes', frameTop')
    BY <2>3, <2>6 DEF PushFrame, frame
  <2>8. QED
    BY <2>7, TiledFrames
<1>4. QED
  BY <1>2, <1>3

(* A return that fails ends the run, so only a good one matters. *)
LEMMA RetTiles ==
  ASSUME TypeInv, FramesTile, Ret
  PROVE  FramesTile'
<1>1. mode = "script"
  BY DEF Ret, Fetch
<1>2. CASE mode' = "idle"
  BY <1>2, TiledFrames
<1>3. CASE mode' # "idle"
  <2>1. /\ callFrames # << >>
        /\ callFrames' = BelowTop(callFrames)
        /\ frameSizes' = BelowTop(frameSizes)
        /\ frameTop' = callFrames[Len(callFrames)].localBase
    BY <1>3 DEF Ret, Abort, Leave
  <2>2. /\ callFrames \in Seq(FrameType) /\ frameSizes \in Seq(Nat)
        /\ frameTop \in Nat
    BY DEF TypeInv, CallsType
  <2>3. Tiled(callFrames, frameSizes, frameTop)
    BY <1>1, TiledFrames
  <2>4. Tiled(callFrames', frameSizes', frameTop')
    BY <2>1, <2>2, <2>3, TiledPop
  <2>5. QED
    BY <2>4, TiledFrames
<1>4. QED
  BY <1>2, <1>3

LEMMA ResetTiles ==
  ASSUME TypeInv, program \in Programs, ResetState
  PROVE  Tiled(callFrames', frameSizes', frameTop')
<1> DEFINE fn == program.functions[program.entryPoint + 1]
<1>1. program \in LinkedProgram /\ program.entryPoint \in Nat
  BY VMAssumption DEF LinkedProgram
<1>2. CASE ResetStatus(program) # "OK"
  BY <1>2, TiledEmpty DEF ResetState
<1>3. CASE ResetStatus(program) = "OK"
  <2>1. EnterStatus(program, program.entryPoint, << >>, 0, 0) = "OK"
    BY <1>3 DEF ResetStatus
  <2>2. /\ << >> \in Seq(Byte) /\ << >> \in Seq(FrameType) /\ << >> \in Seq(Nat)
        /\ Len(<< >>) = 0
    OBVIOUS
  <2>3. /\ fn \in Function /\ 0 + fn.frameByteSize <= FrameCapacity
        /\ 0 < CallFrameCapacity
    BY <1>1, <2>1, <2>2, EnterChecked
  <2>4. PushFrame(<< >>, << >>, fn, 0, 0)
    BY <1>3 DEF ResetState
  <2> HIDE DEF fn
  <2> DEFINE frame == Activation(fn, 0, 0)
  <2>5. frame \in FrameType /\ frame.localBase = 0 /\ fn.frameByteSize \in Nat
    BY <2>3 DEF Activation, FrameType, Function
  <2> HIDE DEF frame
  <2>6. Tiled(Append(<< >>, frame), Append(<< >>, fn.frameByteSize),
              0 + fn.frameByteSize)
    BY <2>2, <2>3, <2>5, TiledEmpty, TiledPush
  <2>7. QED
    BY <2>4, <2>6 DEF PushFrame, frame
<1>4. QED
  BY <1>2, <1>3

LEMMA ResetVMTiles ==
  ASSUME TypeInv, FramesTile, ResetVM
  PROVE  FramesTile'
<1>1. CASE program = NoProgram
  BY <1>1, FramesKept DEF ResetVM
<1>2. CASE program # NoProgram
  <2>1. program \in Programs /\ ResetState
    BY <1>2 DEF ResetVM, TypeInv, LoadType
  <2>2. QED
    BY <2>1, ResetTiles, TiledFrames
<1>3. QED
  BY <1>1, <1>2

LEMMA RunTiles ==
  ASSUME TypeInv, FramesTile, NEW now \in Times, RunLoaded(now)
  PROVE  FramesTile'
<1>1. CASE program = NoProgram
  BY <1>1, FramesKept DEF RunLoaded
<1>2. CASE program # NoProgram
  <2>1. program \in Programs /\ ResetState
    BY <1>2 DEF RunLoaded, TypeInv, LoadType
  <2>2. QED
    BY <2>1, ResetTiles, TiledFrames
<1>3. QED
  BY <1>1, <1>2

(* No other step moves a frame, and none but a run leaves the idle mode. *)
LEMMA OtherExecuteKeepsFrames ==
  ASSUME Execute, ~ Call, ~ Ret
  PROVE  UNCHANGED callVars /\ mode = "script"
<1>1. CASE Push \/ Arithmetic \/ Convert \/ Addr \/ Offset \/ Dereference \/ Compare
  BY <1>1 DEF Push, Arithmetic, Convert, Addr, Offset, Dereference, Compare,
              Operate, Fetch
<1>2. CASE BuiltIn \/ Timer
  BY <1>2 DEF BuiltIn, Timer, Operate, Fetch
<1>3. CASE JumpIfFalse
  BY <1>3 DEF JumpIfFalse, Operate, Fetch
<1>4. CASE Assign \/ Jump \/ CallExtern \/ Unknown \/ Truncated \/ EndOfText
  BY <1>4 DEF Assign, Jump, CallExtern, Unknown, Truncated, EndOfText, Fetch
<1>5. QED
  BY <1>1, <1>2, <1>3, <1>4 DEF Execute

LEMMA FramesTileStep ==
  TypeInv /\ FramesTile /\ [Next]_vars => FramesTile'
<1> SUFFICES ASSUME TypeInv, FramesTile, [Next]_vars PROVE FramesTile'
  OBVIOUS
<1>1. CASE UNCHANGED vars
  BY <1>1, TiledFrames DEF vars, vmVars
<1>2. CASE Execute
  BY <1>2, CallTiles, RetTiles, OtherExecuteKeepsFrames, FramesKept
<1>3. ASSUME NEW kind \in HostKinds, HostPop(kind)
      PROVE  FramesTile'
  BY <1>3, FramesKept DEF HostPop, HostStackOperation
<1>4. ASSUME NEW kind \in HostKinds, NEW value \in HostValues,
             HostPush(kind, value)
      PROVE  FramesTile'
  BY <1>4, FramesKept DEF HostPush, HostStackOperation
<1>5. ASSUME NEW size \in ExternSizes, AllocateExternMemory(size)
      PROVE  FramesTile'
  BY <1>5, FramesKept DEF AllocateExternMemory, SetExtern
<1>6. ASSUME NEW offset \in HostOffsets, NEW value \in HostValues,
             StoreExternInt32(offset, value)
      PROVE  FramesTile'
  BY <1>6, FramesKept DEF StoreExternInt32, SetExtern
<1>7. CASE RegisterExternDispatcher
  BY <1>7, FramesKept DEF RegisterExternDispatcher
<1>8. ASSUME NEW p \in Programs \cup {NoProgram}, LoadProgram(p)
      PROVE  FramesTile'
  BY <1>8, FramesKept DEF LoadProgram
<1>9. CASE Reset
  BY <1>9, ResetVMTiles DEF Reset
<1>10. ASSUME NEW now \in Times, RunLoaded(now)
       PROVE  FramesTile'
  BY <1>10, RunTiles
<1>11. ASSUME NEW status \in HostStatuses \cup {"OK"}, HostReturn(status)
       PROVE  FramesTile'
  BY <1>11, FramesKept DEF HostReturn
<1>12. CASE Host
  BY <1>3, <1>4, <1>5, <1>6, <1>7, <1>8, <1>9, <1>10, <1>11, <1>12 DEF Host
<1>13. QED
  BY <1>1, <1>2, <1>12 DEF Next

(* While a run is on, the frames in use lie one after the other from the   *)
(* start of frame memory and end at the frame top: no call, return, reset  *)
(* by a dispatcher or failed entry lets two activations share a byte.      *)
THEOREM FramesTileCorrect == Spec => []FramesTile
<1>1. Init => TypeInv /\ FramesTile
  BY TypeInvInit DEF Init, VMInit, FramesTile
<1>2. TypeInv /\ FramesTile /\ [Next]_vars => TypeInv' /\ FramesTile'
  BY TypeInvStep, FramesTileStep
<1>3. QED
  BY <1>1, <1>2, PTL DEF Spec
=============================================================================
