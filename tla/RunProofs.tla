------------------------------ MODULE RunProofs ------------------------------
(***************************************************************************)
(* What a run of the virtual machine starts from and how it ends, for all  *)
(* programs, capacities and hosts: no failure is silent, memory is always  *)
(* the loaded program's, a run starts from that program and from nothing   *)
(* an earlier one left, and every instruction belongs to an activation.    *)
(***************************************************************************)
EXTENDS ScriptVMProofs, MCScriptVM, SequenceTheorems

(* No failure is silent.                                                   *)

(* What a step may do to the result and the fault. *)
Reports ==
  \/ UNCHANGED << result, fault >>
  \/ result' \in {"OK", "Running"}
  \/ fault'.status # "OK"

(* Both ways of leaving the loop with a failure leave a fault behind:      *)
(* setFault writes the new one, recordStatus keeps an older one if any.    *)
LEMMA AbortReports ==
  ASSUME NEW outcome, outcome.status # "OK", Abort(outcome)
  PROVE  Reports
BY DEF Abort, Leave, FaultAt, RecordedAt, Reports

LEMMA GoOnReports ==
  ASSUME NEW target, GoOn(target)
  PROVE  Reports
BY DEF GoOn, Reports

LEMMA ConcludeReports ==
  ASSUME NEW outcome, Conclude(outcome)
  PROVE  Reports
<1>1. CASE outcome.status = "OK" /\ GoOn(pc + 1)
  BY <1>1, GoOnReports
<1>2. CASE outcome.status # "OK" /\ Abort(outcome)
  BY <1>2, AbortReports
<1>3. QED
  BY <1>1, <1>2 DEF Conclude

LEMMA OperateReports ==
  ASSUME NEW outcome, Operate(outcome)
  PROVE  Reports
BY ConcludeReports DEF Operate

(* A failure that is set is a failure. *)
LEMMA SetsAborts ==
  ASSUME NEW status, status # "OK", NEW s, Abort(Sets(status, s))
  PROVE  Reports
<1>1. Sets(status, s).status # "OK"
  BY DEF Sets
<1>2. QED
  BY <1>1, AbortReports

LEMMA RecordsAborts ==
  ASSUME NEW status, status # "OK", NEW s, Abort(Records(status, s))
  PROVE  Reports
<1>1. Records(status, s).status # "OK"
  BY DEF Records
<1>2. QED
  BY <1>1, AbortReports

LEMMA JumpReports ==
  ASSUME NEW target, NEW stack, JumpTo(target, stack)
  PROVE  Reports
BY GoOnReports, SetsAborts DEF JumpTo

LEMMA ExecuteReports == Execute => Reports
<1> SUFFICES ASSUME Execute PROVE Reports
  OBVIOUS
<1>1. CASE Push \/ Arithmetic \/ Convert \/ Addr \/ Offset \/ Dereference
             \/ Compare
  BY <1>1, OperateReports
     DEF Push, Arithmetic, Convert, Addr, Offset, Dereference, Compare
<1>2. CASE Assign
  BY <1>2, ConcludeReports DEF Assign
<1>3. CASE BuiltIn \/ Timer
  BY <1>3, OperateReports DEF BuiltIn, Timer
<1>4. CASE Jump
  BY <1>4, JumpReports DEF Jump
<1>5. CASE JumpIfFalse
  BY <1>5, JumpReports, OperateReports DEF JumpIfFalse
<1>6. CASE Call
  BY <1>6, GoOnReports, SetsAborts DEF Call
<1>7. CASE CallExtern
  BY <1>7, SetsAborts DEF CallExtern, Reports
<1>8. CASE Ret
  BY <1>8, RecordsAborts, GoOnReports DEF Ret, Leave, Reports
<1>9. CASE Unknown
  BY <1>9, SetsAborts DEF Unknown
<1>10. CASE Truncated
  BY <1>10, RecordsAborts DEF Truncated
<1>11. CASE EndOfText
  BY <1>11 DEF EndOfText, Leave, Reports
<1>12. QED
  BY <1>1, <1>2, <1>3, <1>4, <1>5, <1>6, <1>7, <1>8, <1>9, <1>10, <1>11
     DEF Execute

(* A load or a reset inside a dispatcher call clears the fault, but then   *)
(* the result of the run is still open.                                    *)
ResultIsOpen == mode # "idle" => result = "Running"

LEMMA HostReports == ResultIsOpen /\ Host => Reports
<1> SUFFICES ASSUME ResultIsOpen, Host PROVE Reports
  OBVIOUS
<1>1. ASSUME NEW outcome, HostStackOperation(outcome) PROVE Reports
  BY <1>1 DEF HostStackOperation, FaultAt, RecordedAt, Reports
<1>2. ASSUME NEW bytes, SetExtern(bytes) PROVE Reports
  BY <1>2 DEF SetExtern, Reports
<1>3. CASE RegisterExternDispatcher
  BY <1>3 DEF RegisterExternDispatcher, Reports
<1>4. ASSUME NEW status, Returns(status) PROVE Reports
  <2>1. CASE status # "OK"
    BY <1>4, <2>1 DEF Returns, FaultAt, Reports
  <2>2. CASE status = "OK"
    BY <1>4, <2>2 DEF Returns, ResultIsOpen, Reports
  <2>3. QED
    BY <2>1, <2>2
<1>5. ASSUME NEW p, LoadProgram(p) PROVE Reports
  BY <1>4, <1>5 DEF LoadProgram
<1>6. CASE Reset
  BY <1>4, <1>6 DEF Reset, ResetVM
<1>7. ASSUME NEW now, RunLoaded(now) PROVE Reports
  BY <1>4, <1>7 DEF RunLoaded, Reports
<1>8. ASSUME NEW status, HostReturn(status) PROVE Reports
  BY <1>8 DEF HostReturn, Leave, Reports
<1>9. QED
  BY <1>1, <1>2, <1>3, <1>5, <1>6, <1>7, <1>8
     DEF Host, HostPop, HostPush, AllocateExternMemory, StoreExternInt32

LEMMA GoOnKeepsOpen ==
  ASSUME ResultIsOpen, NEW target, mode = "script", GoOn(target)
  PROVE  ResultIsOpen'
BY DEF GoOn, ResultIsOpen

LEMMA LeaveIsIdle ==
  ASSUME NEW status, NEW newFault, Leave(status, newFault)
  PROVE  ResultIsOpen'
BY DEF Leave, ResultIsOpen

LEMMA ExecuteKeepsOpen == ResultIsOpen /\ Execute => ResultIsOpen'
<1> SUFFICES ASSUME ResultIsOpen, Execute PROVE ResultIsOpen'
  OBVIOUS
<1>1. mode = "script"
  BY DEF Execute, Push, Arithmetic, Convert, Addr, Offset, Dereference,
         Assign, Compare, Jump, JumpIfFalse, Call, CallExtern, Ret, BuiltIn,
         Timer, Unknown, Truncated, EndOfText, Fetch
<1>2. ASSUME NEW outcome, Abort(outcome) PROVE ResultIsOpen'
  BY <1>2, LeaveIsIdle DEF Abort
<1>3. ASSUME NEW outcome, Conclude(outcome) PROVE ResultIsOpen'
  BY <1>1, <1>2, <1>3, GoOnKeepsOpen DEF Conclude
<1>4. ASSUME NEW outcome, Operate(outcome) PROVE ResultIsOpen'
  BY <1>3, <1>4 DEF Operate
<1>5. ASSUME NEW target, NEW stack, JumpTo(target, stack)
      PROVE  ResultIsOpen'
  BY <1>1, <1>2, <1>5, GoOnKeepsOpen DEF JumpTo
<1>6. CASE CallExtern
  BY <1>1, <1>2, <1>6 DEF CallExtern, ResultIsOpen
<1>7. CASE Call \/ Ret
  BY <1>1, <1>2, <1>7, GoOnKeepsOpen, LeaveIsIdle DEF Call, Ret
<1>8. CASE Unknown \/ Truncated \/ EndOfText
  BY <1>2, <1>8, LeaveIsIdle DEF Unknown, Truncated, EndOfText
<1>9. QED
  BY <1>3, <1>4, <1>5, <1>6, <1>7, <1>8
     DEF Execute, Push, Arithmetic, Convert, Addr, Offset, Dereference,
         Assign, Compare, Jump, JumpIfFalse, BuiltIn, Timer

LEMMA HostKeepsOpen == ResultIsOpen /\ Host => ResultIsOpen'
<1> SUFFICES ASSUME ResultIsOpen, Host PROVE ResultIsOpen'
  OBVIOUS
<1>1. ASSUME NEW outcome, HostStackOperation(outcome) PROVE ResultIsOpen'
  BY <1>1 DEF HostStackOperation, ResultIsOpen
<1>2. ASSUME NEW bytes, SetExtern(bytes) PROVE ResultIsOpen'
  BY <1>2 DEF SetExtern, ResultIsOpen
<1>3. CASE RegisterExternDispatcher
  BY <1>3 DEF RegisterExternDispatcher, ResultIsOpen
<1>4. ASSUME NEW p, LoadProgram(p) PROVE ResultIsOpen'
  BY <1>4 DEF LoadProgram, Returns, ResultIsOpen
<1>5. CASE Reset
  BY <1>5 DEF Reset, ResetVM, Returns, ResultIsOpen
<1>6. ASSUME NEW now, RunLoaded(now) PROVE ResultIsOpen'
  BY <1>6 DEF RunLoaded, ResultIsOpen
<1>7. ASSUME NEW status, HostReturn(status) PROVE ResultIsOpen'
  BY <1>7, LeaveIsIdle DEF HostReturn, ResultIsOpen
<1>8. QED
  BY <1>1, <1>2, <1>3, <1>4, <1>5, <1>6, <1>7
     DEF Host, HostPop, HostPush, AllocateExternMemory, StoreExternInt32

(* While a run is on its result is open, and a failed result has a fault. *)
FaultInv == ResultIsOpen /\ FailureIsRecorded

LEMMA FaultInvInit == Init => FaultInv
BY DEF Init, VMInit, FaultInv, ResultIsOpen, FailureIsRecorded

LEMMA FaultInvStep == FaultInv /\ [Next]_vars => FaultInv'
<1> SUFFICES ASSUME FaultInv, [Next]_vars PROVE FaultInv'
  OBVIOUS
<1>1. CASE Next
  <2>1. Reports
    BY <1>1, ExecuteReports, HostReports DEF Next, FaultInv
  <2>2. ResultIsOpen'
    BY <1>1, ExecuteKeepsOpen, HostKeepsOpen DEF Next, FaultInv
  <2>3. QED
    BY <2>1, <2>2 DEF FaultInv, Reports, FailureIsRecorded
<1>2. CASE UNCHANGED vars
  BY <1>2 DEF vars, vmVars, FaultInv, ResultIsOpen, FailureIsRecorded
<1>3. QED
  BY <1>1, <1>2

(* Every failing status that LoadProgram, Reset or a run returns comes     *)
(* with a recorded fault, in every history of programs and host calls.     *)
THEOREM FailuresRecorded == Spec => []FailureIsRecorded
<1>1. FaultInv => FailureIsRecorded
  BY DEF FaultInv
<1>2. QED
  BY <1>1, FaultInvInit, FaultInvStep, PTL DEF Spec

-----------------------------------------------------------------------------
(* Memory is the loaded program's.  A step that loads nothing keeps the    *)
(* sizes of the globals and the bytes of the constants.                    *)

SegmentsKept ==
  /\ program' = program
  /\ Len(memory'[BSS]) = Len(memory[BSS])
  /\ Len(memory'[Data]) = Len(memory[Data])
  /\ memory'[Const] = memory[Const]

LEMMA LoadedKept ==
  ASSUME LoadedSegments, SegmentsKept
  PROVE  LoadedSegments'
BY DEF LoadedSegments, SegmentsKept

(* A change of the stack, the frames or extern memory touches no global.   *)
LEMMA OthersKeepSegments ==
  ASSUME TypeInv, UNCHANGED program, NEW segment \in {Frame, Stack, Extern},
         NEW bytes, memory' = [memory EXCEPT ![segment] = bytes]
  PROVE  SegmentsKept
<1>1. memory \in [Segment -> Seq(Byte)]
  BY DEF TypeInv, Memory
<1>2. QED
  BY <1>1 DEF SegmentsKept, BSS, Data, Const, Frame, Stack, Extern, Segment

LEMMA FetchedProgram ==
  ASSUME NEW op, Fetch(op)
  PROVE  UNCHANGED program
BY DEF Fetch

LEMMA OperateKeepsSegments ==
  ASSUME TypeInv, NEW op, Fetch(op), NEW outcome, Operate(outcome)
  PROVE  SegmentsKept
BY FetchedProgram, OthersKeepSegments DEF Operate

LEMMA JumpKeepsSegments ==
  ASSUME TypeInv, NEW op, Fetch(op), NEW target, NEW s, JumpTo(target, s)
  PROVE  SegmentsKept
BY FetchedProgram, OthersKeepSegments DEF JumpTo

LEMMA SameMemoryKeepsSegments ==
  ASSUME UNCHANGED << program, memory >>
  PROVE  SegmentsKept
BY DEF SegmentsKept

(* An assignment through an address writes no constant and makes no        *)
(* segment longer or shorter.                                              *)
LEMMA AssignKeepsSegments ==
  ASSUME TypeInv, Assign
  PROVE  SegmentsKept
<1> DEFINE s == OperandStack
           kind == Instr.kind
           n == KindSize(kind)
           address == Operand(s, 4, 1)
           segment == AddressSegment(address)
           outcome == AssignResult(s, kind)
<1>1. Fetch("Assign") /\ UNCHANGED program
  BY FetchedProgram DEF Assign
<1>2. s \in StackBytes /\ kind \in Kind /\ memory \in Memory
  BY <1>1, FetchedInstruction DEF Instruction, TypeInv
<1>3. CASE outcome.status # "OK"
  BY <1>1, <1>3, OthersKeepSegments DEF Assign
<1>4. CASE outcome.status = "OK"
  <2>1. memory' = Assigned(s, kind, outcome.stack)
    BY <1>4 DEF Assign
  <2>2. segment # Const /\ segment \in Segment /\ n # 0 /\ ~ (Len(s) < 4)
          /\ kind # "None"
    BY <1>4 DEF AssignResult, Sets, Records, Underflow, Writable
  <2>3. CASE segment = Stack
    <3>1. memory' = [memory EXCEPT ![Stack] = outcome.stack]
      BY <1>2, <2>1, <2>3 DEF Assigned, Memory
    <3>2. QED
      BY <1>1, <3>1, OthersKeepSegments
  <2>4. CASE segment # Stack
    <3> DEFINE value == Top(Truncate(s, 4), n)
               written == WriteBytes(memory[segment], AddressIndex(address), value)
    <3>1. memory' = [memory EXCEPT ![Stack] = outcome.stack, ![segment] = written]
      BY <1>2, <2>1, <2>4 DEF Assigned, Memory, Segment, Stack
    <3>2. Len(written) = Len(memory[segment])
      <4>1. memory[segment] \in Seq(Byte)
        BY <1>2, <2>2 DEF Memory
      <4>2. \A x : Len([i \in 1 .. Len(memory[segment]) |-> x[i]]) = Len(memory[segment])
        BY <4>1
      <4>3. QED
        BY <4>1 DEF WriteBytes
    <3> HIDE DEF written, segment
    <3>3. memory \in [Segment -> Seq(Byte)] /\ {BSS, Data, Const} \subseteq Segment
            /\ Stack \notin {BSS, Data, Const} /\ segment # Const
      BY <1>2, <2>2 DEF Memory, BSS, Data, Const, Stack, Segment
    <3>4. ASSUME NEW other \in {BSS, Data, Const}
          PROVE  memory'[other] = IF other = segment THEN written ELSE memory[other]
      BY <3>1, <3>3
    <3>5. QED
      BY <1>1, <3>2, <3>3, <3>4 DEF SegmentsKept
  <2>5. QED
    BY <2>3, <2>4
<1>5. QED
  BY <1>3, <1>4

LEMMA ResizedLength ==
  ASSUME NEW s \in Seq(Byte), NEW size \in Nat
  PROVE  Len(Resized(s, size)) = size
BY ZeroesBytes DEF Resized

(* An accepted program sizes the segments, a refused one leaves all.       *)
LEMMA LoadSegments ==
  ASSUME TypeInv, LoadedSegments, NEW p \in Programs \cup {NoProgram},
         LoadProgram(p)
  PROVE  LoadedSegments'
<1>1. CASE LoadStatus(p) # "OK"
  BY <1>1, SameMemoryKeepsSegments, LoadedKept DEF LoadProgram
<1>2. CASE LoadStatus(p) = "OK"
  <2>1. /\ program' = p
        /\ memory' = [memory EXCEPT ![BSS] = Resized(@, p.bssByteSize),
                                    ![Data] = Resized(@, p.dataByteSize),
                                    ![Const] = p.constData]
    BY <1>2 DEF LoadProgram
  <2>2. p \in LinkedProgram /\ p.dataByteSize = Len(p.dataData)
    BY <1>2, VMAssumption DEF LoadStatus
  <2>3. p.bssByteSize \in Nat /\ p.dataByteSize \in Nat
    BY <2>2 DEF LinkedProgram
  <2>4. memory \in [Segment -> Seq(Byte)] /\ {BSS, Data, Const} \subseteq Segment
    BY DEF TypeInv, Memory, BSS, Data, Const, Segment
  <2>5. memory[BSS] \in Seq(Byte) /\ memory[Data] \in Seq(Byte)
    BY <2>4
  <2>6. /\ memory'[BSS] = Resized(memory[BSS], p.bssByteSize)
        /\ memory'[Data] = Resized(memory[Data], p.dataByteSize)
        /\ memory'[Const] = p.constData
    BY <2>1, <2>4 DEF BSS, Data, Const
  <2>7. QED
    BY <2>1, <2>2, <2>3, <2>5, <2>6, ResizedLength DEF LoadedSegments
<1>3. QED
  BY <1>1, <1>2

(* The bytes a reset leaves in the globals. *)
LEMMA ResetMemorySegments ==
  ASSUME memory \in Memory, NEW p \in LinkedProgram
  PROVE  /\ ResetMemory(p)[BSS] = Zeroes(Len(memory[BSS]))
         /\ ResetMemory(p)[Data] =
              [i \in 1 .. Len(memory[Data]) |->
                 IF i <= Len(p.dataData) THEN p.dataData[i] ELSE memory[Data][i]]
         /\ ResetMemory(p)[Frame] = Zeroes(FrameCapacity)
         /\ ResetMemory(p)[Stack] = << >>
         /\ ResetMemory(p)[Const] = memory[Const]
         /\ DOMAIN ResetMemory(p) = Segment
<1>1. /\ memory \in [Segment -> Seq(Byte)] /\ Len(memory[Frame]) = FrameCapacity
      /\ {BSS, Data, Const, Frame, Stack} \subseteq Segment
  BY DEF Memory, BSS, Data, Const, Frame, Stack, Segment
<1> DEFINE data == [i \in 1 .. Len(memory[Data]) |->
                      IF i <= Len(p.dataData) THEN p.dataData[i] ELSE memory[Data][i]]
           cleared == [memory EXCEPT ![BSS] = Zeroes(Len(memory[BSS])), ![Data] = data]
<1>2. ResetMemory(p) = [cleared EXCEPT ![Frame] = Zeroes(Len(memory[Frame])),
                                       ![Stack] = << >>]
  BY <1>1 DEF ResetMemory, BSS, Data, Frame, Stack
<1> HIDE DEF data
<1>3. /\ cleared[BSS] = Zeroes(Len(memory[BSS])) /\ cleared[Data] = data
      /\ cleared[Const] = memory[Const] /\ DOMAIN cleared = Segment
  BY <1>1 DEF BSS, Data, Const
<1> HIDE DEF cleared
<1>4. /\ ResetMemory(p)[BSS] = cleared[BSS] /\ ResetMemory(p)[Data] = cleared[Data]
      /\ ResetMemory(p)[Const] = cleared[Const]
      /\ ResetMemory(p)[Frame] = Zeroes(FrameCapacity)
      /\ ResetMemory(p)[Stack] = << >>
      /\ DOMAIN ResetMemory(p) = Segment
  BY <1>1, <1>2, <1>3 DEF BSS, Data, Const, Frame, Stack
<1>5. QED
  BY <1>3, <1>4 DEF data

(* A reset, with or without an activation of the entry function, keeps the *)
(* sizes.                                                                  *)
LEMMA ResetKeepsSegments ==
  ASSUME TypeInv, program \in Programs, ResetState, UNCHANGED program
  PROVE  SegmentsKept
<1> DEFINE m == ResetMemory(program)
<1>1. program \in LinkedProgram /\ memory \in Memory
  BY VMAssumption DEF TypeInv
<1>2. /\ memory[BSS] \in Seq(Byte) /\ memory[Data] \in Seq(Byte)
      /\ Len(memory[BSS]) \in Nat /\ Len(memory[Data]) \in Nat
  BY <1>1, SMTT(30) DEF Memory, BSS, Data, Segment
<1>3. /\ Len(m[BSS]) = Len(memory[BSS]) /\ Len(m[Data]) = Len(memory[Data])
      /\ m[Const] = memory[Const] /\ DOMAIN m = Segment
  <2>1. m[BSS] = Zeroes(Len(memory[BSS])) /\ m[Const] = memory[Const]
          /\ DOMAIN m = Segment
    BY <1>1, ResetMemorySegments
  <2>2. Len(Zeroes(Len(memory[BSS]))) = Len(memory[BSS])
    BY <1>2, ZeroesBytes
  <2>3. Len([i \in 1 .. Len(memory[Data]) |->
               IF i <= Len(program.dataData) THEN program.dataData[i]
               ELSE memory[Data][i]]) = Len(memory[Data])
    BY <1>2
  <2>4. Len(m[Data]) = Len(memory[Data])
    BY <1>1, <2>3, ResetMemorySegments, Zenon
  <2>5. QED
    BY <2>1, <2>2, <2>4
<1>4. \/ memory' = m
      \/ \E frame, stack : memory' = [m EXCEPT ![Frame] = frame, ![Stack] = stack]
  BY DEF ResetState, Entered
<1> HIDE DEF m
<1>5. /\ memory'[BSS] = m[BSS] /\ memory'[Data] = m[Data]
      /\ memory'[Const] = m[Const]
  BY <1>3, <1>4 DEF BSS, Data, Const, Frame, Stack, Segment
<1>6. QED
  BY <1>3, <1>5 DEF SegmentsKept

LEMMA CallKeepsSegments ==
  ASSUME TypeInv, Call
  PROVE  SegmentsKept
<1>1. UNCHANGED program
  BY FetchedProgram DEF Call
<1>2. \/ UNCHANGED memory
      \/ \E frame, stack : memory' = [memory EXCEPT ![Frame] = frame,
                                                    ![Stack] = stack]
  BY DEF Call, Entered
<1>3. memory \in [Segment -> Seq(Byte)]
  BY DEF TypeInv, Memory
<1>4. QED
  BY <1>1, <1>2, <1>3
     DEF SegmentsKept, BSS, Data, Const, Frame, Stack, Segment

LEMMA ExecuteKeepsSegments ==
  ASSUME TypeInv, Execute
  PROVE  SegmentsKept
<1>1. CASE Push \/ Arithmetic \/ Convert \/ Addr \/ Offset \/ Dereference
             \/ Compare
  BY <1>1, OperateKeepsSegments
     DEF Push, Arithmetic, Convert, Addr, Offset, Dereference, Compare
<1>2. CASE BuiltIn \/ Timer
  BY <1>2, OperateKeepsSegments DEF BuiltIn, Timer
<1>3. CASE Jump \/ JumpIfFalse
  BY <1>3, OperateKeepsSegments, JumpKeepsSegments DEF Jump, JumpIfFalse
<1>4. CASE Assign \/ Call
  BY <1>4, AssignKeepsSegments, CallKeepsSegments
<1>5. CASE CallExtern \/ Ret \/ Unknown \/ Truncated \/ EndOfText
  BY <1>5, SameMemoryKeepsSegments
     DEF CallExtern, Ret, Unknown, Truncated, EndOfText, Fetch
<1>6. QED
  BY <1>1, <1>2, <1>3, <1>4, <1>5 DEF Execute

LEMMA HostLoadedSegments ==
  ASSUME TypeInv, LoadedSegments, Host
  PROVE  LoadedSegments'
<1>1. ASSUME NEW outcome, HostStackOperation(outcome)
      PROVE  LoadedSegments'
  BY <1>1, OthersKeepSegments, LoadedKept DEF HostStackOperation
<1>2. ASSUME NEW bytes, SetExtern(bytes)
      PROVE  LoadedSegments'
  BY <1>2, OthersKeepSegments, LoadedKept DEF SetExtern
<1>3. ASSUME UNCHANGED << program, memory >>
      PROVE  LoadedSegments'
  BY <1>3, SameMemoryKeepsSegments, LoadedKept
<1>4. ASSUME program # NoProgram, ResetState, UNCHANGED program
      PROVE  LoadedSegments'
  <2>1. program \in Programs
    BY <1>4 DEF TypeInv, LoadType
  <2>2. QED
    BY <1>4, <2>1, ResetKeepsSegments, LoadedKept
<1>5. CASE Reset
  BY <1>3, <1>4, <1>5 DEF Reset, ResetVM
<1>6. ASSUME NEW now \in Times, RunLoaded(now)
      PROVE  LoadedSegments'
  BY <1>3, <1>4, <1>6 DEF RunLoaded
<1>7. QED
  BY <1>1, <1>2, <1>3, <1>5, <1>6, LoadSegments
     DEF Host, HostPop, HostPush, AllocateExternMemory, StoreExternInt32,
         RegisterExternDispatcher, HostReturn

LEMMA LoadedSegmentsStep ==
  TypeInv /\ LoadedSegments /\ [Next]_vars => LoadedSegments'
<1> SUFFICES ASSUME TypeInv, LoadedSegments, [Next]_vars
             PROVE  LoadedSegments'
  OBVIOUS
<1>1. CASE UNCHANGED vars
  BY <1>1, SameMemoryKeepsSegments, LoadedKept DEF vars, vmVars
<1>2. CASE Execute
  BY <1>2, ExecuteKeepsSegments, LoadedKept
<1>3. CASE Host
  BY <1>3, HostLoadedSegments
<1>4. QED
  BY <1>1, <1>2, <1>3 DEF Next

LEMMA TypedAndLoaded == Spec => [](TypeInv /\ LoadedSegments)
<1>1. Init => TypeInv /\ LoadedSegments
  BY TypeInvInit DEF Init, VMInit, LoadedSegments
<1>2. TypeInv /\ LoadedSegments /\ [Next]_vars => TypeInv' /\ LoadedSegments'
  BY TypeInvStep, LoadedSegmentsStep
<1>3. QED
  BY <1>1, <1>2, PTL DEF Spec

(* After any mixture of good and refused loads, resets and runs, the       *)
(* global segments are as large as the loaded program asks for and the     *)
(* constants are the program's: no script writes one through an address.   *)
THEOREM MemoryIsTheProgram == Spec => []LoadedSegments
BY TypedAndLoaded, PTL

-----------------------------------------------------------------------------
(* A run starts from the program.  The entry function has no parameters,   *)
(* so its activation covers nothing and takes nothing off the stack.       *)

LEMMA EntryWithoutParams ==
  ASSUME NEW p, NEW fn \in Function, fn.paramCount = 0
  PROVE  /\ \A b : Covering(p, fn, b) = {}
         /\ ArgumentBytes(p, fn, 1) = 0
<1>1. Params(fn) = {}
  BY DEF Params
<1>2. { slot \in Params(fn) \X (1 .. 4) :
          slot[1] >= 1 /\ slot[2] <= ParamSize(p, fn, slot[1]) } = {}
  BY <1>1
<1>3. ArgumentBytes(p, fn, 1) = 0
  BY <1>2, FS_EmptySet DEF ArgumentBytes
<1>4. QED
  BY <1>1, <1>3 DEF Covering

(* Only RunLoaded leaves the idle mode, and only when the entry can be     *)
(* entered and the time does not go back.                                  *)
LEMMA OnlyRunStarts ==
  ASSUME Next, mode = "idle", mode' = "script"
  PROVE  \E now \in Times :
           /\ RunLoaded(now) /\ ResetState /\ program # NoProgram
           /\ ResetStatus(program) = "OK" /\ fault' = NoFault
<1>1. ~ Execute
  BY DEF Execute, Push, Arithmetic, Convert, Addr, Offset, Dereference,
         Assign, Compare, Jump, JumpIfFalse, Call, CallExtern, Ret, BuiltIn,
         Timer, Unknown, Truncated, EndOfText, Fetch
<1>2. ~ UNCHANGED mode
  OBVIOUS
<1>3. PICK now \in Times : RunLoaded(now)
  BY <1>1, <1>2
     DEF Next, Host, HostPop, HostPush, HostStackOperation,
         AllocateExternMemory, StoreExternInt32, SetExtern,
         RegisterExternDispatcher, LoadProgram, Reset, ResetVM, HostReturn
<1>4. QED
  BY <1>2, <1>3 DEF RunLoaded

LEMMA RunStart ==
  ASSUME TypeInv, LoadedSegments, Next, mode = "idle", mode' = "script"
  PROVE  /\ memory'[BSS] = Zeroes(program.bssByteSize)
         /\ memory'[Data] = program.dataData
         /\ memory'[Frame] = Zeroes(FrameCapacity)
         /\ memory'[Stack] = << >>
         /\ Len(callFrames') = 1
         /\ fault' = NoFault
<1> DEFINE fn == program.functions[program.entryPoint + 1]
           m == ResetMemory(program)
<1>1. /\ ResetState /\ program # NoProgram /\ ResetStatus(program) = "OK"
      /\ fault' = NoFault
  BY OnlyRunStarts
<1>2. /\ program \in LinkedProgram /\ program.entryPoint \in Nat
      /\ memory \in Memory /\ FrameCapacity \in Nat
  BY <1>1, VMAssumption DEF TypeInv, LoadType, LinkedProgram
<1>3. /\ memory' = Entered(program, fn, m, 0)
      /\ callFrames' = Append(<< >>, Activation(fn, 0, 0))
  BY <1>1 DEF ResetState, PushFrame
<1>4. fn \in Function /\ fn.paramCount = 0
  <2>1. EnterStatus(program, program.entryPoint, << >>, 0, 0) = "OK"
          /\ fn.paramCount = 0
    BY <1>1 DEF ResetStatus
  <2>2. << >> \in Seq(Byte) /\ 0 \in Nat
    OBVIOUS
  <2>3. QED
    BY <1>2, <2>1, <2>2, EnterChecked
<1>5. /\ m[BSS] = Zeroes(program.bssByteSize)
      /\ m[Frame] = Zeroes(FrameCapacity) /\ m[Stack] = << >>
      /\ DOMAIN m = Segment
  BY <1>1, <1>2, ResetMemorySegments DEF LoadedSegments
<1>6. m[Data] = program.dataData
  <2>1. program.dataData \in Seq(Byte) /\ Len(memory[Data]) = Len(program.dataData)
    BY <1>1, <1>2 DEF LinkedProgram, LoadedSegments
  <2>2. m[Data] = [i \in 1 .. Len(program.dataData) |->
                     IF i <= Len(program.dataData) THEN program.dataData[i]
                     ELSE memory[Data][i]]
    BY <1>2, <2>1, ResetMemorySegments, Zenon
  <2>3. m[Data] = [i \in 1 .. Len(program.dataData) |-> program.dataData[i]]
    BY <2>1, <2>2
  <2>4. QED
    BY <2>1, <2>3
<1> HIDE DEF fn, m
<1>7. (\A b : Covering(program, fn, b) = {}) /\ ArgumentBytes(program, fn, 1) = 0
  BY <1>4, EntryWithoutParams
<1>8. /\ memory'[BSS] = m[BSS] /\ memory'[Data] = m[Data]
      /\ memory'[Frame] = EnteredFrame(program, fn, m[Stack], m[Frame], 0)
      /\ memory'[Stack] = Truncate(m[Stack], ArgumentBytes(program, fn, 1))
  BY <1>3, <1>5 DEF Entered, BSS, Data, Frame, Stack, Segment
<1>9. memory'[Stack] = << >>
  BY <1>5, <1>7, <1>8 DEF Truncate
<1>10. memory'[Frame] = Zeroes(FrameCapacity)
  <2>1. Len(m[Frame]) = FrameCapacity
    BY <1>2, <1>5, ZeroesBytes
  <2>2. \A b \in 1 .. FrameCapacity : m[Frame][b] = 0
    BY <1>5 DEF Zeroes
  <2>3. memory'[Frame] = [b \in 1 .. FrameCapacity |->
                            IF b \notin 0 + 1 .. 0 + fn.frameByteSize
                              THEN m[Frame][b] ELSE 0]
    BY <1>7, <1>8, <2>1 DEF EnteredFrame
  <2>4. QED
    BY <2>2, <2>3 DEF Zeroes
<1>11. Len(callFrames') = 1
  BY <1>3
<1>12. QED
  BY <1>1, <1>5, <1>6, <1>8, <1>9, <1>10, <1>11

(* Whatever the run before did, and wherever it faulted, the next one      *)
(* starts from the program's initial globals, an empty stack, zero locals  *)
(* and one activation.                                                     *)
THEOREM RunsStartAfresh == Spec => RunStartsFromProgram
<1> DEFINE Fresh ==
             mode = "idle" /\ mode' = "script" =>
               /\ memory'[BSS] = Zeroes(program.bssByteSize)
               /\ memory'[Data] = program.dataData
               /\ memory'[Frame] = Zeroes(FrameCapacity)
               /\ memory'[Stack] = << >>
               /\ Len(callFrames') = 1
               /\ fault' = NoFault
<1>1. TypeInv /\ LoadedSegments /\ [Next]_vars => [Fresh]_vars
  BY RunStart
<1>2. Spec => [][Fresh]_vars
  BY <1>1, TypedAndLoaded, PTL DEF Spec
<1>3. QED
  BY <1>2 DEF RunStartsFromProgram

-----------------------------------------------------------------------------
(* Every instruction belongs to an activation.  Of what instructions,      *)
(* entries, loads and resets can return, only an address of a local made   *)
(* outside an activation is an invalid lifecycle.                          *)

Bad == "InvalidLifecycle"

LEMMA StackInstructionsNotBad ==
  /\ \A s, kind, bits : PushResult(s, kind, bits).status # Bad
  /\ \A s, kind, op : ArithmeticResult(s, kind, op).status # Bad
  /\ \A s, from, to : ConvertResult(s, from, to).status # Bad
  /\ \A s : OffsetResult(s).status # Bad
  /\ \A s, kind : DereferenceResult(s, kind).status # Bad
  /\ \A s, kind : AssignResult(s, kind).status # Bad
  /\ \A s, kind, op : CompareResult(s, kind, op).status # Bad
  /\ \A s, kind, op : TimerResult(s, kind, op).status # Bad
<1>1. /\ \A s, status : Records(status, s).status = status
      /\ \A s, status : Sets(status, s).status = status
      /\ \A s : Done(s).status # Bad
      /\ \A s, n : Underflow(s, n).status # Bad
      /\ \A s, bytes : Pushed(s, bytes).status # Bad
  BY DEF Records, Sets, Done, Underflow, Pushed, Bad
<1>2. \A s, kind, bits : PushResult(s, kind, bits).status # Bad
  BY <1>1 DEF PushResult, Bad
<1>3. \A s, kind, op : ArithmeticResult(s, kind, op).status # Bad
  BY <1>1 DEF ArithmeticResult, Bad
<1>4. \A s, from, to : ConvertResult(s, from, to).status # Bad
  BY <1>1 DEF ConvertResult, Bad
<1>5. \A s : OffsetResult(s).status # Bad
  BY <1>1 DEF OffsetResult, Bad
<1>6. \A s, kind : DereferenceResult(s, kind).status # Bad
  BY <1>1 DEF DereferenceResult, Bad
<1>7. \A s, kind : AssignResult(s, kind).status # Bad
  BY <1>1 DEF AssignResult, Bad
<1>8. \A s, kind, op : CompareResult(s, kind, op).status # Bad
  BY <1>1 DEF CompareResult, Bad
<1>9. \A s, kind, op : TimerResult(s, kind, op).status # Bad
  BY <1>1 DEF TimerResult, Bad
<1>10. QED
  BY <1>2, <1>3, <1>4, <1>5, <1>6, <1>7, <1>8, <1>9

LEMMA AddrNotBad ==
  ASSUME callFrames # << >>, NEW s, NEW segment, NEW offset
  PROVE  AddrResult(s, segment, offset).status # Bad
BY DEF AddrResult, Records, Sets, Pushed, Done, Bad

LEMMA BuiltInNotBad ==
  ASSUME NEW s, NEW kind, NEW op, NEW outcome \in BuiltInOutcomes(s, kind, op)
  PROVE  outcome.status # Bad
<1>1. /\ \A t, status : Records(status, t).status = status
      /\ \A t, n : Underflow(t, n).status # Bad
      /\ \A t, bytes : Pushed(t, bytes).status # Bad
  BY DEF Records, Sets, Done, Underflow, Pushed, Bad
<1>2. ASSUME NEW t, NEW o \in Numbers(t, kind) PROVE o.status # Bad
  BY <1>1, <1>2 DEF Numbers
<1>3. ASSUME NEW o \in MathOutcomes(s, kind, op) PROVE o.status # Bad
  BY <1>1, <1>2, <1>3 DEF MathOutcomes, Bad
<1>4. ASSUME NEW o \in InterpolationOutcomes(s, kind) PROVE o.status # Bad
  BY <1>1, <1>2, <1>4 DEF InterpolationOutcomes, Bad
<1>5. QED
  BY <1>1, <1>2, <1>3, <1>4 DEF BuiltInOutcomes, Bad

LEMMA EnterNotBad ==
  /\ \A p, f, s, base, depth : EnterStatus(p, f, s, base, depth) # Bad
  /\ \A p : ResetStatus(p) # Bad
  /\ \A p : LoadStatus(p) # Bad
BY DEF EnterStatus, ResetStatus, LoadStatus, Bad

(* The invariant in a form without the condition on the host.              *)
Active ==
  /\ mode # "idle" => callFrames # << >>
  /\ result # Bad

LEMMA ConcludeActive ==
  ASSUME Active, mode = "script", UNCHANGED callVars,
         NEW outcome, outcome.status # Bad, Conclude(outcome)
  PROVE  Active'
BY DEF Active, Conclude, Abort, Leave, GoOn, callVars, Bad

LEMMA JumpActive ==
  ASSUME Active, mode = "script", UNCHANGED callVars,
         NEW target, NEW s, JumpTo(target, s)
  PROVE  Active'
BY DEF Active, JumpTo, Abort, Leave, GoOn, callVars, Sets, Bad

LEMMA BelowTopLength ==
  ASSUME NEW S, NEW s \in Seq(S), s # << >>
  PROVE  Len(BelowTop(s)) = Len(s) - 1
<1>1. Len(s) \in Nat /\ Len(s) > 0
  OBVIOUS
<1>2. Len(s) - 1 \in 0 .. Len(s)
  BY <1>1
<1>3. QED
  BY <1>1, <1>2 DEF BelowTop

LEMMA RetActive ==
  ASSUME TypeInv, Active, Ret
  PROVE  Active'
<1>1. mode = "script" /\ callFrames # << >>
  BY DEF Ret, Fetch, Active
<1>2. CASE mode' = "idle"
  BY <1>1, <1>2 DEF Ret, Active, Abort, Leave, GoOn, Records, Bad
<1>3. CASE mode' # "idle"
  <2>1. /\ callFrames' = BelowTop(callFrames) /\ ~ LastActivation
        /\ UNCHANGED result
    BY <1>1, <1>3 DEF Ret, Abort, Leave, GoOn
  <2>2. callFrames \in Seq(FrameType) /\ Len(callFrames) # 1
          /\ Len(callFrames) \in Nat \ {0}
    BY <1>1, <2>1 DEF TypeInv, CallsType, LastActivation
  <2>3. Len(BelowTop(callFrames)) = Len(callFrames) - 1
    BY <1>1, <2>2, BelowTopLength
  <2>4. callFrames' # << >>
    BY <2>1, <2>2, <2>3
  <2>5. QED
    BY <2>1, <2>4 DEF Active
<1>4. QED
  BY <1>2, <1>3

LEMMA CallActive ==
  ASSUME TypeInv, Active, Call
  PROVE  Active'
<1> DEFINE status == EnterStatus(program, Instr.arg, OperandStack, frameTop,
                                 Len(callFrames))
           fn == program.functions[Instr.arg + 1]
<1>1. CASE status = "OK"
  <2>1. /\ callFrames' = Append(callFrames, Activation(fn, frameTop, PCAfterCall))
        /\ UNCHANGED result
    BY <1>1 DEF Call, PushFrame, GoOn
  <2>2. callFrames \in Seq(FrameType)
    BY DEF TypeInv, CallsType
  <2>3. callFrames' # << >>
    BY <2>1, <2>2
  <2>4. QED
    BY <2>1, <2>3 DEF Active
<1>2. CASE status # "OK"
  BY <1>2, EnterNotBad DEF Call, Abort, Leave, Sets, Active
<1>3. QED
  BY <1>1, <1>2

LEMMA ExecuteActive ==
  ASSUME TypeInv, Active, Execute
  PROVE  Active'
<1>1. CASE Push \/ Arithmetic \/ Convert \/ Addr \/ Offset \/ Dereference
             \/ Compare \/ Timer
  BY <1>1, StackInstructionsNotBad, AddrNotBad, ConcludeActive
     DEF Push, Arithmetic, Convert, Addr, Offset, Dereference, Compare, Timer,
         Operate, Fetch, Active
<1>2. CASE Assign
  BY <1>2, StackInstructionsNotBad, ConcludeActive DEF Assign, Fetch
<1>3. CASE BuiltIn
  BY <1>3, BuiltInNotBad, ConcludeActive DEF BuiltIn, Operate, Fetch
<1>4. CASE Jump
  BY <1>4, JumpActive DEF Jump, Fetch
<1>5. CASE JumpIfFalse
  <2>1. /\ \A s, n : Underflow(s, n).status # Bad
        /\ \A s : Done(s).status # Bad
    BY DEF Underflow, Records, Done, Bad
  <2>2. QED
    BY <1>5, <2>1, JumpActive, ConcludeActive DEF JumpIfFalse, Operate, Fetch
<1>6. CASE CallExtern
  BY <1>6 DEF CallExtern, Abort, Leave, Sets, Active, Bad, Fetch, callVars
<1>7. CASE Unknown \/ Truncated \/ EndOfText
  BY <1>7 DEF Unknown, Truncated, EndOfText, Abort, Leave, Sets, Records,
              Active, Bad
<1>8. QED
  BY <1>1, <1>2, <1>3, <1>4, <1>5, <1>6, <1>7, RetActive, CallActive DEF Execute

(* Outside a run the host may empty the call frames: Reset does when the   *)
(* entry cannot be entered.  Inside a run it may not.                      *)
LEMMA HostActive ==
  ASSUME Active, ~ HostReloads, Host
  PROVE  Active'
<1>1. ASSUME NEW outcome, HostStackOperation(outcome) PROVE Active'
  BY <1>1 DEF HostStackOperation, Active, callVars
<1>2. ASSUME NEW bytes, SetExtern(bytes) PROVE Active'
  BY <1>2 DEF SetExtern, Active, callVars
<1>3. CASE RegisterExternDispatcher
  BY <1>3 DEF RegisterExternDispatcher, Active, callVars
<1>4. ASSUME NEW p, LoadProgram(p) PROVE Active'
  BY <1>4, EnterNotBad DEF LoadProgram, Returns, HostMayReload, Active
<1>5. CASE Reset
  BY <1>5, EnterNotBad
     DEF Reset, ResetVM, Returns, HostMayReload, Active, Bad
<1>6. ASSUME NEW now \in Times, RunLoaded(now) PROVE Active'
  <2>1. CASE mode' = "idle"
    BY <1>6, <2>1, EnterNotBad DEF RunLoaded, Returns, Active, Bad
  <2>2. CASE mode' # "idle"
    <3>1. result' = "Running" /\ ResetStatus(program) = "OK" /\ ResetState
      BY <1>6, <2>2 DEF RunLoaded
    <3>2. callFrames' = Append(<< >>, Activation(
                          program.functions[program.entryPoint + 1], 0, 0))
      BY <3>1 DEF ResetState, PushFrame
    <3>3. Len(callFrames') = 1
      BY <3>2
    <3>4. QED
      BY <3>1, <3>3 DEF Active, Bad
  <2>3. QED
    BY <2>1, <2>2
<1>7. ASSUME NEW status, HostReturn(status) PROVE Active'
  BY <1>7 DEF HostReturn, Leave, Active, callVars, Bad
<1>8. QED
  BY <1>1, <1>2, <1>3, <1>4, <1>5, <1>6, <1>7
     DEF Host, HostPop, HostPush, AllocateExternMemory, StoreExternInt32

ActiveInv == ~ HostReloads => Active

LEMMA ActiveMeans == ActiveInv => AlwaysActive
BY DEF ActiveInv, AlwaysActive, Active, Bad

LEMMA ActiveStep ==
  TypeInv /\ ActiveInv /\ [Next]_vars => ActiveInv'
<1> SUFFICES ASSUME TypeInv, Active, ~ HostReloads, [Next]_vars PROVE Active'
  BY DEF ActiveInv
<1>1. CASE UNCHANGED vars
  BY <1>1 DEF vars, vmVars, Active
<1>2. CASE Next
  BY <1>2, ExecuteActive, HostActive DEF Next
<1>3. QED
  BY <1>1, <1>2

(* As long as the dispatcher does not reset the VM under the running       *)
(* script, the interpreter is inside an activation, and the two            *)
(* invalid-lifecycle exits of its loop are dead code.                      *)
THEOREM RunsInsideActivations == Spec => []AlwaysActive
<1>1. Init => ActiveInv
  BY DEF Init, VMInit, ActiveInv, Active, Bad
<1>2. Init => TypeInv
  BY TypeInvInit
<1>3. /\ TypeInv /\ [Next]_vars => TypeInv'
      /\ TypeInv /\ ActiveInv /\ [Next]_vars
           => ActiveInv'
  BY TypeInvStep, ActiveStep
<1>4. QED
  BY <1>1, <1>2, <1>3, ActiveMeans, PTL DEF Spec

-----------------------------------------------------------------------------
(* Calls and returns nest.  The locals of an activation are the bytes of   *)
(* its frame, so that what the steps leave alone must be told byte by byte.*)

(* The condition on the bytecode: an assignment that succeeds writes frame *)
(* memory from the current frame on.  An index out of its array's range    *)
(* can reach below, for the VM checks the bounds of the segment only.      *)
AssignsAbove ==
  Assign /\ mode' = "script" =>
    (AddressSegment(Operand(OperandStack, 4, 1)) = Frame =>
       AddressIndex(Operand(OperandStack, 4, 1)) >= LocalBase)

(* Activations, as a function of what it is made of. *)
Seen(frames, sizes, bytes) ==
  [i \in 1 .. Len(frames) |->
     [resume |-> frames[i].returnPC,
      locals |-> ReadBytes(bytes, frames[i].localBase, sizes[i])]]

LEMMA ActivationsSeen ==
  /\ mode = "idle" => Activations = << >>
  /\ mode # "idle" => Activations = Seen(callFrames, frameSizes, memory[Frame])
  /\ mode' = "idle" => Activations' = << >>
  /\ mode' # "idle" =>
       Activations' = Seen(callFrames', frameSizes', memory'[Frame])
BY DEF Activations, Seen

LEMMA TiledNumbers ==
  ASSUME NEW frames \in Seq(FrameType), NEW sizes \in Seq(Nat),
         Len(sizes) = Len(frames), NEW j \in 1 .. Len(frames)
  PROVE  /\ frames[j].localBase \in Nat /\ sizes[j] \in Nat
         /\ frames[j].localBase + sizes[j] \in Nat
         /\ frames[j].localBase <= frames[j].localBase + sizes[j]
<1>1. frames[j] \in FrameType /\ sizes[j] \in Nat
  BY ElementOfSeq
<1>2. frames[j].localBase \in Nat
  BY <1>1 DEF FrameType
<1>3. QED
  BY <1>1, <1>2

(* Each frame ends where the topmost one begins, or before. *)
LEMMA TiledBelow ==
  ASSUME NEW frames \in Seq(FrameType), NEW sizes \in Seq(Nat), NEW top \in Nat,
         Tiled(frames, sizes, top), NEW i \in 1 .. Len(frames) - 1
  PROVE  frames[i].localBase + sizes[i] <= frames[Len(frames)].localBase
<1> DEFINE n == Len(frames)
           End(j) == frames[j].localBase + sizes[j]
           wrong == { k \in Nat : k < n - 1 /\ ~ (End(n - 1 - k) <= frames[n].localBase) }
<1>1. n \in Nat /\ Len(sizes) = n
  BY DEF Tiled
<1>2. ASSUME NEW j \in 1 .. n
      PROVE  /\ frames[j].localBase \in Nat /\ sizes[j] \in Nat
             /\ End(j) \in Nat /\ frames[j].localBase <= End(j)
  BY <1>1, <1>2, TiledNumbers
<1>3. \A j \in 1 .. n - 1 : frames[j + 1].localBase = End(j)
  <2>1. ASSUME NEW j \in 1 .. n - 1
        PROVE  frames[j + 1].localBase = End(j)
    <3>1. j + 1 \in 1 .. n /\ j + 1 # 1 /\ (j + 1) - 1 = j
      BY <1>1
    <3>2. QED
      BY <3>1 DEF Tiled
  <2>2. QED
    BY <2>1
<1> HIDE DEF n, End
<1>4. wrong = {}
  <2> SUFFICES ASSUME wrong # {} PROVE FALSE
    OBVIOUS
  <2>1. PICK k \in wrong : \A y \in wrong : k <= y
    BY LeastNatural
  <2>2. k \in Nat /\ k < n - 1 /\ ~ (End(n - 1 - k) <= frames[n].localBase)
    BY <2>1
  <2> DEFINE j == n - 1 - k
  <2>3. j \in 1 .. n - 1 /\ j + 1 \in 1 .. n
    BY <1>1, <2>2
  <2>4. frames[j + 1].localBase = End(j)
    BY <1>3, <2>3
  <2>5. CASE k = 0
    <3>1. j + 1 = n
      BY <1>1, <2>5
    <3>2. QED
      BY <1>1, <1>2, <2>2, <2>3, <2>4, <3>1
  <2>6. CASE k # 0
    <3>0. k \in Nat /\ k # 0 /\ k < n - 1 /\ n \in Nat
      BY <1>1, <2>2, <2>6
    <3>1. k - 1 \in Nat /\ k - 1 < n - 1 /\ n - 1 - (k - 1) = j + 1
      BY <3>0
    <3>2. k - 1 \notin wrong
      BY <2>1, <2>2, <3>1
    <3>3. End(j + 1) <= frames[n].localBase
      BY <3>1, <3>2
    <3>4. /\ End(j + 1) \in Nat /\ frames[j + 1].localBase \in Nat
          /\ frames[j + 1].localBase <= End(j + 1)
      BY <1>2, <2>3
    <3>5. n \in 1 .. n
      BY <1>1, <2>3
    <3>6. frames[n].localBase \in Nat
      BY <1>2, <3>5
    <3>7. End(j) <= frames[n].localBase
      BY <2>4, <3>3, <3>4, <3>6, SMTT(30)
    <3>8. QED
      BY <2>2, <3>7
  <2>7. QED
    BY <2>5, <2>6
<1>5. n - 1 - i \in Nat /\ n - 1 - i < n - 1 /\ n - 1 - (n - 1 - i) = i
  BY <1>1 DEF n
<1>6. n - 1 - i \notin wrong
  BY <1>4
<1>7. End(i) <= frames[n].localBase
  BY <1>5, <1>6
<1>8. QED
  BY <1>7 DEF n, End

(* All frames lie below the frame top. *)
LEMMA TiledWithin ==
  ASSUME NEW frames \in Seq(FrameType), NEW sizes \in Seq(Nat), NEW top \in Nat,
         Tiled(frames, sizes, top), NEW i \in 1 .. Len(frames)
  PROVE  frames[i].localBase + sizes[i] <= top
<1> DEFINE n == Len(frames)
<1>1. n \in Nat \ {0} /\ Len(sizes) = n /\ frames # << >>
  BY DEF Tiled
<1>2. /\ frames[n].localBase \in Nat /\ sizes[n] \in Nat
      /\ frames[i].localBase \in Nat /\ sizes[i] \in Nat
  <2>1. n \in 1 .. Len(frames) /\ Len(sizes) = Len(frames)
    BY <1>1
  <2>2. QED
    BY <2>1, TiledNumbers
<1>3. top = frames[n].localBase + sizes[n]
  BY <1>1 DEF Tiled
<1>4. CASE i = n
  BY <1>2, <1>3, <1>4
<1>5. CASE i # n
  <2>1. i \in 1 .. n - 1
    BY <1>1, <1>5
  <2>2. frames[i].localBase + sizes[i] <= frames[n].localBase
    BY <2>1, TiledBelow
  <2>3. QED
    BY <1>2, <1>3, <2>2, SMTT(30)
<1>6. QED
  BY <1>4, <1>5

(* Two memories that agree up to a place hold the same bytes below it.     *)
LEMMA SameBytes ==
  ASSUME NEW a \in Seq(Byte), NEW b \in Seq(Byte), NEW k \in Nat,
         k <= Len(a), k <= Len(b), \A x \in 1 .. k : a[x] = b[x],
         NEW offset \in Nat, NEW size \in Nat, offset + size <= k
  PROVE  ReadBytes(a, offset, size) = ReadBytes(b, offset, size)
<1> DEFINE s == ReadBytes(a, offset, size)
           t == ReadBytes(b, offset, size)
<1>1. /\ s \in Seq(Byte) /\ Len(s) = size
      /\ t \in Seq(Byte) /\ Len(t) = size
  BY ReadBytesRange DEF InSegment
<1>2. ASSUME NEW i \in 1 .. size
      PROVE  s[i] = t[i]
  <2>1. s[i] = a[offset + i] /\ t[i] = b[offset + i]
    BY DEF ReadBytes
  <2>2. offset + i \in 1 .. k
    OBVIOUS
  <2>3. QED
    BY <2>1, <2>2
<1> HIDE DEF s, t
<1>3. s = t
  BY <1>1, <1>2, SeqEqual
<1>4. QED
  BY <1>3 DEF s, t

ActivationType == [resume : Nat, locals : Seq(Byte)]

LEMMA SeenType ==
  ASSUME NEW frames \in Seq(FrameType), NEW sizes \in Seq(Nat), NEW top \in Nat,
         Tiled(frames, sizes, top), NEW bytes \in Seq(Byte),
         Len(bytes) = FrameCapacity
  PROVE  /\ Seen(frames, sizes, bytes) \in Seq(ActivationType)
         /\ Len(Seen(frames, sizes, bytes)) = Len(frames)
         /\ \A i \in 1 .. Len(frames) :
              /\ Seen(frames, sizes, bytes)[i].resume = frames[i].returnPC
              /\ Seen(frames, sizes, bytes)[i].locals =
                   ReadBytes(bytes, frames[i].localBase, sizes[i])
              /\ Len(Seen(frames, sizes, bytes)[i].locals) = sizes[i]
<1> DEFINE one(i) == [resume |-> frames[i].returnPC,
                      locals |-> ReadBytes(bytes, frames[i].localBase, sizes[i])]
           n == Len(frames)
<1>1. ASSUME NEW i \in 1 .. n
      PROVE  one(i) \in ActivationType /\ Len(one(i).locals) = sizes[i]
  <2>1. /\ frames[i] \in FrameType /\ frames[i].localBase \in Nat /\ sizes[i] \in Nat
        /\ frames[i].localBase + sizes[i] <= top /\ top <= FrameCapacity
    BY ElementOfSeq, TiledNumbers, TiledWithin DEF Tiled
  <2>2. frames[i].localBase + sizes[i] <= Len(bytes)
    BY <2>1, VMAssumption
  <2>3. /\ ReadBytes(bytes, frames[i].localBase, sizes[i]) \in Seq(Byte)
        /\ Len(ReadBytes(bytes, frames[i].localBase, sizes[i])) = sizes[i]
    BY <2>1, <2>2, ReadBytesRange DEF InSegment
  <2>4. frames[i].returnPC \in Nat
    BY <2>1 DEF FrameType
  <2>5. QED
    BY <2>3, <2>4 DEF ActivationType
<1>2. Seen(frames, sizes, bytes) = [i \in 1 .. n |-> one(i)]
  BY DEF Seen
<1> HIDE DEF one
<1>3. [i \in 1 .. n |-> one(i)] \in Seq(ActivationType)
        /\ Len([i \in 1 .. n |-> one(i)]) = n
  BY <1>1
<1>4. QED
  BY <1>1, <1>2, <1>3 DEF one

(* What the invariants say of the activations seen, now or after a step.   *)
LEMMA SeenNow ==
  ASSUME TypeInv, FramesTile, mode # "idle"
  PROVE  /\ Tiled(callFrames, frameSizes, frameTop)
         /\ callFrames \in Seq(FrameType) /\ frameSizes \in Seq(Nat)
         /\ frameTop \in Nat /\ frameTop <= FrameCapacity
         /\ memory[Frame] \in Seq(Byte) /\ Len(memory[Frame]) = FrameCapacity
         /\ Activations = Seen(callFrames, frameSizes, memory[Frame])
<1>1. Tiled(callFrames, frameSizes, frameTop)
  BY TiledFrames
<1>2. QED
  BY <1>1, ActivationsSeen DEF TypeInv, CallsType, Memory, Frame, Segment, Tiled

LEMMA SeenThen ==
  ASSUME TypeInv', FramesTile', mode' # "idle"
  PROVE  /\ Tiled(callFrames', frameSizes', frameTop')
         /\ callFrames' \in Seq(FrameType) /\ frameSizes' \in Seq(Nat)
         /\ frameTop' \in Nat /\ frameTop' <= FrameCapacity
         /\ memory'[Frame] \in Seq(Byte) /\ Len(memory'[Frame]) = FrameCapacity
         /\ Activations' = Seen(callFrames', frameSizes', memory'[Frame])
<1>1. Tiled(callFrames', frameSizes', frameTop')
  BY TiledFrames
<1>2. QED
  BY <1>1, ActivationsSeen DEF TypeInv, CallsType, Memory, Frame, Segment, Tiled

LEMMA SameStart ==
  ASSUME NEW S, NEW s \in Seq(S), NEW t \in Seq(S), NEW k \in Nat,
         k <= Len(s), k <= Len(t), \A i \in 1 .. k : s[i] = t[i]
  PROVE  SubSeq(s, 1, k) = SubSeq(t, 1, k)
<1> DEFINE a == SubSeq(s, 1, k)
           b == SubSeq(t, 1, k)
<1>1. a \in Seq(S) /\ b \in Seq(S) /\ Len(a) = k /\ Len(b) = k
  OBVIOUS
<1>2. \A i \in 1 .. k : a[i] = s[i] /\ b[i] = t[i]
  OBVIOUS
<1> HIDE DEF a, b
<1>3. a = b
  BY <1>1, <1>2, SeqEqual
<1>4. QED
  BY <1>3 DEF a, b

LEMMA WorkNests ==
  ASSUME TypeInv, FramesTile, TypeInv', FramesTile',
         mode # "idle", mode' # "idle", callFrames # << >>, UNCHANGED callVars,
         \A b \in 1 .. LocalBase : memory'[Frame][b] = memory[Frame][b]
  PROVE  Calls!Work
<1> DEFINE n == Len(callFrames)
           old == Seen(callFrames, frameSizes, memory[Frame])
           new == Seen(callFrames, frameSizes, memory'[Frame])
<1>1. /\ Tiled(callFrames, frameSizes, frameTop)
      /\ callFrames \in Seq(FrameType) /\ frameSizes \in Seq(Nat)
      /\ frameTop \in Nat /\ frameTop <= FrameCapacity
      /\ memory[Frame] \in Seq(Byte) /\ Len(memory[Frame]) = FrameCapacity
      /\ memory'[Frame] \in Seq(Byte) /\ Len(memory'[Frame]) = FrameCapacity
      /\ Activations = old
      /\ callFrames' = callFrames /\ frameSizes' = frameSizes
      /\ Activations' = new
  BY SeenNow, SeenThen DEF callVars
<1>2. n \in Nat \ {0} /\ n \in 1 .. n /\ n - 1 \in Nat
  BY <1>1
<1>3. /\ old \in Seq(ActivationType) /\ Len(old) = n
      /\ new \in Seq(ActivationType) /\ Len(new) = n
      /\ \A i \in 1 .. n :
           /\ old[i] = [resume |-> callFrames[i].returnPC,
                locals |-> ReadBytes(memory[Frame], callFrames[i].localBase,
                                     frameSizes[i])]
           /\ new[i] = [resume |-> callFrames[i].returnPC,
                locals |-> ReadBytes(memory'[Frame], callFrames[i].localBase,
                                     frameSizes[i])]
           /\ Len(old[i].locals) = frameSizes[i]
           /\ Len(new[i].locals) = frameSizes[i]
  <2>1. /\ old \in Seq(ActivationType) /\ Len(old) = n
        /\ \A i \in 1 .. n : Len(old[i].locals) = frameSizes[i]
    BY <1>1, SeenType
  <2>2. /\ new \in Seq(ActivationType) /\ Len(new) = n
        /\ \A i \in 1 .. n : Len(new[i].locals) = frameSizes[i]
    BY <1>1, SeenType
  <2>3. QED
    BY <2>1, <2>2 DEF Seen
<1>4. /\ LocalBase \in Nat /\ LocalBase <= FrameCapacity
      /\ LocalBase = callFrames[n].localBase
  <2>1. /\ callFrames[n].localBase \in Nat /\ frameSizes[n] \in Nat
        /\ Len(frameSizes) = n
    BY <1>1, <1>2, TiledNumbers DEF Tiled
  <2>2. callFrames[n].localBase + frameSizes[n] <= frameTop
    BY <1>1, <1>2, TiledWithin
  <2>3. QED
    BY <1>1, <2>1, <2>2, VMAssumption DEF LocalBase
<1>5. ASSUME NEW i \in 1 .. n - 1
      PROVE  old[i] = new[i]
  <2>1. i \in 1 .. n
    BY <1>2
  <2>2. callFrames[i].localBase \in Nat /\ frameSizes[i] \in Nat
    BY <1>1, <2>1, TiledNumbers DEF Tiled
  <2>3. callFrames[i].localBase + frameSizes[i] <= LocalBase
    BY <1>1, <1>4, TiledBelow
  <2>4. /\ memory[Frame] \in Seq(Byte) /\ memory'[Frame] \in Seq(Byte)
        /\ LocalBase <= Len(memory[Frame]) /\ LocalBase <= Len(memory'[Frame])
        /\ \A x \in 1 .. LocalBase : memory[Frame][x] = memory'[Frame][x]
    BY <1>1, <1>4
  <2>5. ReadBytes(memory[Frame], callFrames[i].localBase, frameSizes[i])
          = ReadBytes(memory'[Frame], callFrames[i].localBase, frameSizes[i])
    <3> DEFINE a == memory[Frame]
               b == memory'[Frame]
               base == callFrames[i].localBase
               size == frameSizes[i]
    <3>1. /\ a \in Seq(Byte) /\ b \in Seq(Byte)
          /\ LocalBase \in Nat /\ LocalBase <= Len(a) /\ LocalBase <= Len(b)
          /\ \A x \in 1 .. LocalBase : a[x] = b[x]
          /\ base \in Nat /\ size \in Nat /\ base + size <= LocalBase
      BY <1>4, <2>2, <2>3, <2>4
    <3> HIDE DEF a, b, base, size
    <3>2. ReadBytes(a, base, size) = ReadBytes(b, base, size)
      BY <3>1, SameBytes
    <3>3. QED
      BY <3>2 DEF a, b, base, size
  <2>6. QED
    BY <1>3, <2>1, <2>5
<1> HIDE DEF old, new, n
<1>6. SubSeq(old, 1, n - 1) = SubSeq(new, 1, n - 1)
  BY <1>2, <1>3, <1>5, SameStart
<1>7. old[n].resume = new[n].resume /\ Len(old[n].locals) = Len(new[n].locals)
  BY <1>2, <1>3, SMTT(30)
<1>8. old # << >>
  BY <1>2, <1>3
<1>9. QED
  BY <1>1, <1>3, <1>6, <1>7, <1>8 DEF Calls!Work, Calls!Top, Calls!Callers

(* A call keeps the bytes below the frame top, where all callers live.     *)
LEMMA CallNests ==
  ASSUME TypeInv, FramesTile, TypeInv', FramesTile', Active, Call,
         mode' # "idle"
  PROVE  Calls!CallFunction
<1> DEFINE n == Len(callFrames)
           fn == program.functions[Instr.arg + 1]
           old == Seen(callFrames, frameSizes, memory[Frame])
           new == Seen(callFrames', frameSizes', memory'[Frame])
<1>1. mode = "script" /\ callFrames # << >>
  BY DEF Call, Fetch, Active
<1>2. /\ Tiled(callFrames, frameSizes, frameTop)
      /\ callFrames \in Seq(FrameType) /\ frameSizes \in Seq(Nat)
      /\ frameTop \in Nat /\ frameTop <= FrameCapacity
      /\ memory[Frame] \in Seq(Byte) /\ Len(memory[Frame]) = FrameCapacity
      /\ Activations = old
  BY <1>1, SeenNow
<1>3. /\ Tiled(callFrames', frameSizes', frameTop')
      /\ callFrames' \in Seq(FrameType) /\ frameSizes' \in Seq(Nat)
      /\ frameTop' \in Nat
      /\ memory'[Frame] \in Seq(Byte) /\ Len(memory'[Frame]) = FrameCapacity
      /\ Activations' = new
  BY SeenThen
<1>4. /\ callFrames' = Append(callFrames, Activation(fn, frameTop, pc + 1))
      /\ frameSizes' = Append(frameSizes, fn.frameByteSize)
      /\ memory' = Entered(program, fn, memory, frameTop)
  BY DEF Call, Abort, Leave, PushFrame, PCAfterCall
<1>5. n \in Nat \ {0} /\ Len(frameSizes) = n /\ n \in 1 .. n
  BY <1>1, <1>2 DEF Tiled
<1>6. /\ Len(callFrames') = n + 1 /\ callFrames'[n + 1].returnPC = pc + 1
      /\ \A i \in 1 .. n : callFrames'[i] = callFrames[i]
      /\ \A i \in 1 .. n : frameSizes'[i] = frameSizes[i]
  BY <1>2, <1>4, <1>5 DEF Activation
<1>7. ASSUME NEW b \in 1 .. frameTop
      PROVE  memory'[Frame][b] = memory[Frame][b]
  <2>1. memory'[Frame] = EnteredFrame(program, fn, memory[Stack], memory[Frame],
                                      frameTop)
    BY <1>4 DEF Entered, TypeInv, Memory, Frame, Stack, Segment
  <2>2. b \in 1 .. Len(memory[Frame])
          /\ b \notin frameTop + 1 .. frameTop + fn.frameByteSize
    BY <1>2, VMAssumption
  <2>3. QED
    BY <2>1, <2>2 DEF EnteredFrame
<1>8. /\ old \in Seq(ActivationType) /\ Len(old) = n
      /\ \A i \in 1 .. n :
           old[i] = [resume |-> callFrames[i].returnPC,
                locals |-> ReadBytes(memory[Frame], callFrames[i].localBase,
                                     frameSizes[i])]
  <2>1. old \in Seq(ActivationType) /\ Len(old) = n
    BY <1>2, SeenType
  <2>2. QED
    BY <2>1 DEF Seen
<1>9. /\ new \in Seq(ActivationType) /\ Len(new) = n + 1
      /\ \A i \in 1 .. n + 1 :
           new[i] = [resume |-> callFrames'[i].returnPC,
                locals |-> ReadBytes(memory'[Frame], callFrames'[i].localBase,
                                     frameSizes'[i])]
  <2>1. new \in Seq(ActivationType) /\ Len(new) = n + 1
    BY <1>3, <1>6, SeenType
  <2>2. QED
    BY <1>6 , <2>1 DEF Seen
<1>10. ASSUME NEW i \in 1 .. n
       PROVE  old[i] = new[i]
  <2> DEFINE a == memory[Frame]
             b == memory'[Frame]
             base == callFrames[i].localBase
             size == frameSizes[i]
  <2>1. base + size <= frameTop
    BY <1>2, TiledWithin
  <2>2. base \in Nat /\ size \in Nat
    BY <1>2, <1>5, TiledNumbers
  <2>3. /\ a \in Seq(Byte) /\ b \in Seq(Byte)
        /\ frameTop \in Nat /\ frameTop <= Len(a) /\ frameTop <= Len(b)
        /\ \A x \in 1 .. frameTop : a[x] = b[x]
    BY <1>2, <1>3, <1>7
  <2>4. /\ old[i] = [resume |-> callFrames[i].returnPC,
                     locals |-> ReadBytes(a, base, size)]
        /\ new[i] = [resume |-> callFrames[i].returnPC,
                     locals |-> ReadBytes(b, base, size)]
    <3>1. i \in 1 .. n + 1
      BY <1>5
    <3>2. QED
      BY <1>6, <1>8, <1>9, <3>1
  <2> HIDE DEF a, b, base, size
  <2>5. ReadBytes(a, base, size) = ReadBytes(b, base, size)
    BY <2>1, <2>2, <2>3, SameBytes
  <2>6. QED
    BY <2>4, <2>5
<1> HIDE DEF old, new, n, fn
<1>11. SubSeq(new, 1, n) = old
  <2>1. SubSeq(new, 1, n) = SubSeq(old, 1, n)
    BY <1>5, <1>8, <1>9, <1>10, SameStart
  <2>2. SubSeq(old, 1, n) = old
    BY <1>5, <1>8
  <2>3. QED
    BY <2>1, <2>2
<1>12. new[n + 1].resume = pc + 1
  BY <1>5, <1>6, <1>9
<1>13. old # << >> /\ (n + 1) - 1 = n
  BY <1>5, <1>8
<1>14. QED
  BY <1>1, <1>2, <1>3, <1>8, <1>9, <1>11, <1>12, <1>13
     DEF Calls!CallFunction, Calls!Top, Calls!Callers

(* A return drops the topmost activation and goes on where it says.        *)
LEMMA RetNests ==
  ASSUME TypeInv, FramesTile, TypeInv', FramesTile', Active, Ret,
         mode' # "idle"
  PROVE  Calls!Return
<1> DEFINE n == Len(callFrames)
           old == Seen(callFrames, frameSizes, memory[Frame])
           new == Seen(callFrames', frameSizes', memory'[Frame])
<1>1. mode = "script" /\ callFrames # << >> /\ UNCHANGED memory
  BY DEF Ret, Fetch, Active
<1>2. /\ callFrames' = BelowTop(callFrames) /\ frameSizes' = BelowTop(frameSizes)
      /\ n # 1 /\ pc' = callFrames[n].returnPC /\ mode' = "script"
  BY <1>1 DEF Ret, Abort, Leave, GoOn, LastActivation
<1>3. /\ Tiled(callFrames, frameSizes, frameTop)
      /\ callFrames \in Seq(FrameType) /\ frameSizes \in Seq(Nat)
      /\ frameTop \in Nat
      /\ memory[Frame] \in Seq(Byte) /\ Len(memory[Frame]) = FrameCapacity
      /\ Activations = old
  BY <1>1, SeenNow
<1>4. /\ Tiled(callFrames', frameSizes', frameTop')
      /\ callFrames' \in Seq(FrameType) /\ frameSizes' \in Seq(Nat)
      /\ frameTop' \in Nat
      /\ memory'[Frame] \in Seq(Byte) /\ Len(memory'[Frame]) = FrameCapacity
      /\ Activations' = new
  BY SeenThen
<1>5. /\ n \in Nat /\ n > 1 /\ Len(frameSizes) = n
      /\ frameSizes # << >>
  BY <1>1, <1>2, <1>3 DEF Tiled
<1>6. Len(callFrames') = n - 1
  BY <1>1, <1>2, <1>3, BelowTopLength
<1>7. /\ \A i \in 1 .. n - 1 : callFrames'[i] = callFrames[i]
      /\ \A i \in 1 .. n - 1 : frameSizes'[i] = frameSizes[i]
  <2>1. \A i \in 1 .. n - 1 : BelowTop(callFrames)[i] = callFrames[i]
    BY <1>3, <1>5 DEF BelowTop
  <2>2. \A i \in 1 .. n - 1 : BelowTop(frameSizes)[i] = frameSizes[i]
    BY <1>3, <1>5 DEF BelowTop
  <2>3. QED
    BY <1>2, <2>1, <2>2
<1>8. old \in Seq(ActivationType) /\ Len(old) = n
        /\ old[n].resume = callFrames[n].returnPC
  <2>1. n \in 1 .. n
    BY <1>5
  <2>2. QED
    BY <1>3, <2>1, SeenType
<1>9. new \in Seq(ActivationType) /\ Len(new) = n - 1
  BY <1>4, <1>6, SeenType
<1>10. ASSUME NEW i \in 1 .. n - 1
       PROVE  old[i] = new[i]
  <2>1. i \in 1 .. Len(callFrames) /\ i \in 1 .. Len(callFrames')
    BY <1>5, <1>6
  <2>2. /\ old[i] = [resume |-> callFrames[i].returnPC,
                locals |-> ReadBytes(memory[Frame], callFrames[i].localBase,
                                     frameSizes[i])]
        /\ new[i] = [resume |-> callFrames'[i].returnPC,
                locals |-> ReadBytes(memory'[Frame], callFrames'[i].localBase,
                                     frameSizes'[i])]
    BY <2>1 DEF Seen
  <2>3. QED
    BY <1>1, <1>7, <2>2
<1> HIDE DEF old, new, n
<1>11. SubSeq(old, 1, n - 1) = new
  <2>1. n - 1 \in Nat /\ n - 1 <= Len(old) /\ n - 1 <= Len(new)
    BY <1>5, <1>8, <1>9
  <2>2. SubSeq(old, 1, n - 1) = SubSeq(new, 1, n - 1)
    BY <1>8, <1>9, <1>10, <2>1, SameStart
  <2>3. SubSeq(new, 1, n - 1) = new
    BY <1>9, <2>1
  <2>4. QED
    BY <2>2, <2>3
<1>12. QED
  BY <1>2, <1>3, <1>4, <1>5, <1>8, <1>11
     DEF Calls!Return, Calls!Top, Calls!Callers

LEMMA RunNests ==
  ASSUME TypeInv, LoadedSegments, TypeInv', FramesTile', Next,
         mode = "idle", mode' = "script"
  PROVE  Calls!Start
<1> DEFINE new == Seen(callFrames', frameSizes', memory'[Frame])
<1>1. /\ Tiled(callFrames', frameSizes', frameTop')
      /\ callFrames' \in Seq(FrameType) /\ frameSizes' \in Seq(Nat)
      /\ frameTop' \in Nat /\ frameTop' <= FrameCapacity
      /\ memory'[Frame] \in Seq(Byte) /\ Len(memory'[Frame]) = FrameCapacity
      /\ Activations' = new
  BY SeenThen
<1>2. Len(callFrames') = 1 /\ memory'[Frame] = Zeroes(FrameCapacity)
  BY RunStart
<1>3. Activations = << >>
  BY ActivationsSeen
<1>4. 1 \in 1 .. Len(callFrames')
  BY <1>2
<1>5. /\ Len(new) = 1
      /\ new[1].locals = ReadBytes(memory'[Frame], callFrames'[1].localBase,
                                   frameSizes'[1])
      /\ Len(new[1].locals) = frameSizes'[1]
  BY <1>1, <1>2, <1>4, SeenType
<1>6. ASSUME NEW b \in 1 .. Len(new[1].locals)
      PROVE  new[1].locals[b] = 0
  <2> DEFINE base == callFrames'[1].localBase
             size == frameSizes'[1]
  <2>1. base \in Nat /\ size \in Nat
    BY <1>1, <1>4, TiledNumbers DEF Tiled
  <2>2. base + size <= frameTop'
    BY <1>1, <1>4, TiledWithin
  <2>3. b \in 1 .. size
    BY <1>5, <1>6
  <2> HIDE DEF base, size
  <2>4. ReadBytes(memory'[Frame], base, size)[b] = memory'[Frame][base + b]
    BY <1>1, <2>1, <2>2, <2>3, SMTT(30) DEF ReadBytes
  <2>5. base + b \in 1 .. FrameCapacity
    BY <1>1, <2>1, <2>2, <2>3, VMAssumption
  <2>6. Zeroes(FrameCapacity)[base + b] = 0
    BY <2>5 DEF Zeroes
  <2>7. QED
    BY <1>2, <1>5, <2>4, <2>6 DEF base, size
<1> HIDE DEF new
<1>7. QED
  BY <1>1, <1>3, <1>5, <1>6 DEF Calls!Start

(* An assignment that goes on wrote nothing below the current frame.       *)
LEMMA AssignKeepsCallers ==
  ASSUME TypeInv, FramesTile, Active, Assign, AssignsAbove, mode' # "idle",
         NEW b \in 1 .. LocalBase
  PROVE  memory'[Frame][b] = memory[Frame][b]
<1> DEFINE s == OperandStack
           kind == Instr.kind
           address == Operand(s, 4, 1)
           segment == AddressSegment(address)
           offset == AddressIndex(address)
           outcome == AssignResult(s, kind)
           value == Top(Truncate(s, 4), KindSize(kind))
<1>1. outcome.status = "OK" /\ mode' = "script" /\ mode = "script"
  BY DEF Assign, Fetch, Conclude, Abort, Leave, GoOn
<1>2. memory' = Assigned(s, kind, outcome.stack)
  BY <1>1 DEF Assign
<1>3. /\ memory \in [Segment -> Seq(Byte)] /\ memory[Frame] \in Seq(Byte)
      /\ Len(memory[Frame]) = FrameCapacity /\ Frame \in Segment
  BY DEF TypeInv, Memory, Frame, Segment
<1>4. b \in 1 .. Len(memory[Frame]) /\ LocalBase \in Nat
  <2> DEFINE n == Len(callFrames)
  <2>1. n \in 1 .. n /\ LocalBase = callFrames[n].localBase
    BY <1>1, SeenNow DEF LocalBase, Active
  <2>2. /\ LocalBase \in Nat /\ frameSizes[n] \in Nat
        /\ LocalBase + frameSizes[n] <= frameTop
        /\ frameTop \in Nat /\ frameTop <= FrameCapacity
    BY <1>1, <2>1, SeenNow, TiledNumbers, TiledWithin DEF Tiled
  <2>3. QED
    BY <1>3, <2>2, VMAssumption
<1>5. CASE segment # Frame
  <2>1. memory'[Frame] = memory[Frame]
    BY <1>2, <1>3, <1>5 DEF Assigned, Frame, Stack
  <2>2. QED
    BY <2>1
<1>6. CASE segment = Frame
  <2>1. offset >= LocalBase
    BY <1>1, <1>6 DEF AssignsAbove
  <2>2. memory'[Frame] = WriteBytes(memory[Frame], offset, value)
    BY <1>2, <1>3, <1>6 DEF Assigned, Frame, Stack
  <2>3. ~ (Len(s) < 4) /\ s \in StackBytes
    <3>1. ~ (Len(s) < 4)
      BY <1>1 DEF AssignResult, Underflow, Records, Sets
    <3>2. QED
      BY <3>1, FetchedInstruction DEF Assign
  <2>4. offset \in Nat
    BY <2>3, PopAddress
  <2> HIDE DEF offset, value
  <2>5. b \notin offset + 1 .. offset + Len(value)
    BY <1>4, <2>1, <2>4
  <2>6. QED
    BY <1>4, <2>2, <2>5 DEF WriteBytes
<1>7. QED
  BY <1>5, <1>6

(* The instructions that neither call nor return, and the host's calls.    *)
LEMMA OtherExecuteNests ==
  ASSUME TypeInv, FramesTile, Active, Execute, ~ Call, ~ Ret, AssignsAbove,
         mode' # "idle", NEW b \in 1 .. LocalBase
  PROVE  memory'[Frame][b] = memory[Frame][b]
<1>1. memory \in [Segment -> Seq(Byte)] /\ Frame \in Segment /\ Stack # Frame
  BY DEF TypeInv, Memory, Frame, Stack, Segment
<1>2. ASSUME NEW stack, memory' = [memory EXCEPT ![Stack] = stack]
      PROVE  memory'[Frame] = memory[Frame]
  BY <1>1, <1>2
<1>3. CASE Assign
  BY <1>3, AssignKeepsCallers
<1>4. CASE Push \/ Arithmetic \/ Convert \/ Addr \/ Offset \/ Dereference
             \/ Compare \/ BuiltIn \/ Timer \/ Jump \/ JumpIfFalse
  BY <1>2, <1>4
     DEF Push, Arithmetic, Convert, Addr, Offset, Dereference, Compare,
         BuiltIn, Timer, Jump, JumpIfFalse, Operate, JumpTo
<1>5. CASE CallExtern \/ Unknown \/ Truncated \/ EndOfText
  BY <1>5 DEF CallExtern, Unknown, Truncated, EndOfText
<1>6. QED
  BY <1>3, <1>4, <1>5 DEF Execute

LEMMA HostKeepsFrames ==
  ASSUME TypeInv, Host, ~ HostReloads, mode # "idle"
  PROVE  UNCHANGED callVars /\ memory'[Frame] = memory[Frame]
<1>1. memory \in [Segment -> Seq(Byte)] /\ Frame \in Segment
        /\ Frame \notin {Stack, Extern}
  BY DEF TypeInv, Memory, Frame, Stack, Extern, Segment
<1>2. ASSUME NEW segment \in {Stack, Extern}, NEW bytes,
             memory' = [memory EXCEPT ![segment] = bytes]
      PROVE  memory'[Frame] = memory[Frame]
  BY <1>1, <1>2
<1>3. ASSUME NEW outcome, HostStackOperation(outcome)
      PROVE  UNCHANGED callVars /\ memory'[Frame] = memory[Frame]
  BY <1>2, <1>3 DEF HostStackOperation
<1>4. ASSUME NEW bytes, SetExtern(bytes)
      PROVE  UNCHANGED callVars /\ memory'[Frame] = memory[Frame]
  BY <1>2, <1>4 DEF SetExtern
<1>5. QED
  BY <1>3, <1>4
     DEF Host, HostPop, HostPush, AllocateExternMemory, StoreExternInt32,
         RegisterExternDispatcher, LoadProgram, Reset, ResetVM, RunLoaded,
         HostMayReload, HostReturn

LEMMA IdleStarts ==
  ASSUME Next, mode = "idle", mode' # "idle"
  PROVE  mode' = "script"
BY DEF Next, Execute, Push, Arithmetic, Convert, Addr, Offset, Dereference,
       Assign, Compare, Jump, JumpIfFalse, Call, CallExtern, Ret, BuiltIn,
       Timer, Unknown, Truncated, EndOfText, Fetch, Host, HostPop, HostPush,
       HostStackOperation, AllocateExternMemory, StoreExternInt32, SetExtern,
       RegisterExternDispatcher, LoadProgram, Reset, ResetVM, RunLoaded,
       Returns, HostReturn

(* All of it: types, tiled frames, the program's memory, an activation.    *)
RunInv == TypeInv /\ FramesTile /\ LoadedSegments /\ ActiveInv

LEMMA RunInvInit == Init => RunInv
<1> SUFFICES ASSUME Init PROVE RunInv
  OBVIOUS
<1>1. FramesTile /\ LoadedSegments /\ ActiveInv
  BY DEF Init, VMInit, FramesTile, LoadedSegments, ActiveInv, Active, Bad
<1>2. QED
  BY <1>1, TypeInvInit DEF RunInv

LEMMA RunInvStep == RunInv /\ [Next]_vars => RunInv'
BY TypeInvStep, FramesTileStep, LoadedSegmentsStep, ActiveStep DEF RunInv

LEMMA NestsStep ==
  ASSUME ~ HostReloads, RunInv, RunInv', [Next]_vars, [AssignsAbove]_vars
  PROVE  [Calls!StackNext]_(Calls!stackVars)
<1>1. /\ TypeInv /\ FramesTile /\ LoadedSegments /\ Active
      /\ TypeInv' /\ FramesTile'
  BY DEF RunInv, ActiveInv
<1>2. CASE UNCHANGED vars
  BY <1>2 DEF vars, vmVars, Activations, Calls!stackVars
<1>3. CASE Next /\ mode = "idle" /\ mode' = "idle"
  BY <1>3, ActivationsSeen DEF Calls!stackVars
<1>4. CASE Next /\ mode = "idle" /\ mode' # "idle"
  BY <1>1, <1>4, IdleStarts, RunNests DEF Calls!StackNext
<1>5. CASE Next /\ mode # "idle" /\ mode' = "idle"
  BY <1>5, ActivationsSeen DEF Calls!StackNext, Calls!Finish
<1>6. CASE Next /\ ~ UNCHANGED vars /\ mode # "idle" /\ mode' # "idle"
  <2>1. CASE Call
    BY <1>1, <1>6, <2>1, CallNests DEF Calls!StackNext
  <2>2. CASE Ret
    BY <1>1, <1>6, <2>2, RetNests DEF Calls!StackNext
  <2>3. CASE ~ Call /\ ~ Ret
    <3>1. AssignsAbove /\ callFrames # << >>
      BY <1>1, <1>6 DEF Active
    <3>2. UNCHANGED callVars
      BY <1>1, <1>6, <2>3, OtherExecuteKeepsFrames, HostKeepsFrames DEF Next
    <3>3. \A b \in 1 .. LocalBase : memory'[Frame][b] = memory[Frame][b]
      BY <1>1, <1>6, <2>3, <3>1, OtherExecuteNests, HostKeepsFrames DEF Next
    <3>4. Calls!Work
      BY <1>1, <1>6, <3>1, <3>2, <3>3, WorkNests
    <3>5. QED
      BY <3>4 DEF Calls!StackNext
  <2>4. QED
    BY <2>1, <2>2, <2>3
<1>7. QED
  BY <1>2, <1>3, <1>4, <1>5, <1>6

(* Calls and returns, entries and host calls implement a stack of          *)
(* activations with locals of their own, for all programs and capacities:  *)
(* a caller goes on behind its call with its locals as it left them - as   *)
(* long as no assignment reaches below its own frame and no dispatcher     *)
(* resets the VM under the running script.                                 *)
THEOREM CallsNest ==
  ASSUME ~ HostReloads
  PROVE  Spec /\ [][AssignsAbove]_vars => CallsAreNested
<1>1. Init => Calls!StackInit
  BY ActivationsSeen DEF Init, VMInit, Calls!StackInit
<1>2. RunInv /\ RunInv' /\ [Next]_vars /\ [AssignsAbove]_vars
        => [Calls!StackNext]_(Calls!stackVars)
  BY NestsStep
<1>3. QED
  BY <1>1, <1>2, RunInvInit, RunInvStep, PTL
     DEF Spec, CallsAreNested, Calls!StackSpec
=============================================================================
