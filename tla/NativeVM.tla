------------------------------ MODULE NativeVM ------------------------------
(***************************************************************************)
(* The native virtual machine (cpp/vm.cpp, cpp/builtins.cpp), which runs   *)
(* the same linked programs inside a C++ host.  It differs from the Go one *)
(* in three ways.  It is bound to one program, keeps that program's        *)
(* globals from one tick to the next, and gives them back their initial    *)
(* values only when the program is loaded again.  It reports nothing: an   *)
(* instruction that cannot be executed violates an assertion, and what     *)
(* happens from there on is not defined ("broken").  And it has its own    *)
(* idea of a timer that is stopped, and of a first tick.                   *)
(*                                                                         *)
(* What is only arithmetic (operands, encodings, the bytes of a frame) is  *)
(* taken from ScriptVM; every condition, and the order of the effects, is  *)
(* the native one.  The math built-ins are left out, and so is a           *)
(* dispatcher that loads, resets or runs the VM that called it.            *)
(***************************************************************************)
EXTENDS ScriptVM

CONSTANTS
  GlobalCapacity,  \* bytes of storage the host gives to BSS, and to Data
  TickBase         \* ticks are counted modulo this, 2^32 in the code

ASSUME NativeAssumption ==
  /\ GlobalCapacity \in Nat
  /\ TickBase \in Nat \ {0}

VARIABLES
  nativeMode,        \* "idle", "script", "host" or "broken"
  nativeProgram,     \* m_program
  nativeMemory,      \* m_memory
  nativePC,
  nativeFrames,      \* m_call_frames
  nativeFrameTop,
  nativeDispatcher,  \* an extern dispatcher is registered
  nativeTime,        \* m_time: current, ticks, tickTime
  nativeTimers       \* m_timers: endTimeMS and durationMS of each slot

nativeCallVars == << nativeFrames, nativeFrameTop >>
nativeTimeVars == << nativeTime, nativeTimers >>
nativeBinding == << nativeProgram, nativeDispatcher >>
nativeVars ==
  << nativeMode, nativeMemory, nativePC, nativeCallVars, nativeBinding,
     nativeTimeVars >>

NoTimers == [id \in TimerId |-> [endTimeMS |-> 0, durationMS |-> 0]]

(* What initialize_vm leaves. *)
FreshMemory ==
  [segment \in Segment |->
     IF segment = Frame THEN Zeroes(FrameCapacity) ELSE << >>]
FreshTime == [current |-> 0, ticks |-> 0, tickTime |-> 0]

NativeInit ==
  /\ nativeMode = "idle"
  /\ nativeProgram = NoProgram
  /\ nativeMemory = FreshMemory
  /\ nativePC = 0
  /\ nativeFrames = << >>
  /\ nativeFrameTop = 0
  /\ nativeDispatcher = FALSE
  /\ nativeTime = FreshTime
  /\ nativeTimers = NoTimers

-----------------------------------------------------------------------------
(* What an instruction does to the operand stack, where it is defined. *)

Defined(s) == [defined |-> TRUE, stack |-> s]
Undefined == [defined |-> FALSE, stack |-> << >>]
When(asserted, outcome) == IF asserted THEN outcome ELSE Undefined

NativePushed(s, kind, value) ==
  When(KindSize(kind) > 0 /\ Len(s) + KindSize(kind) <= StackCapacity,
       Defined(s \o Encode(KindSize(kind), value)))

NativePush(s, kind, bits) ==
  When(kind \notin {"None", "Void", "Address"}, NativePushed(s, kind, bits))

NativeArithmetic(s, kind, op) ==
  LET n == KindSize(kind)
      left == Typed(kind, Operand(s, n, 2))
      right == Typed(kind, Operand(s, n, 1))
  IN  When(/\ kind \in {"Bool", "Uint8", "Int32"}
           /\ Len(s) >= 2 * n
           /\ op \in ArithmeticOp
           /\ op \in {"Div", "Modulo"} => right # 0,
           NativePushed(Truncate(s, 2 * n), kind, Calculate(op, left, right)))

NativeConversion(s, from, to) ==
  LET n == KindSize(from)
      bits == Operand(s, n, 1)
  IN  When(KindSize(to) > 0 /\ n > 0 /\ Len(s) >= n,
           NativePushed(Truncate(s, n), to,
                        IF "Bool" \in {from, to} THEN Truth(bits) ELSE bits))

NativeComparison(s, kind, op) ==
  LET n == KindSize(kind)
      value(bits) == IF kind = "Bool" THEN Truth(bits) ELSE Typed(kind, bits)
      holds == Holds(op, value(Operand(s, n, 2)), value(Operand(s, n, 1)))
  IN  When(/\ n > 0
           /\ Len(s) >= 2 * n
           /\ op \in IF kind = "Bool" THEN {"Equal", "NotEqual"} ELSE CompareOp,
           NativePushed(Truncate(s, 2 * n), "Bool", IF holds THEN 1 ELSE 0))

(* Unlike the Go VM it refuses a segment out of range when the address is  *)
(* made, not when it is used.                                              *)
NativeSegment == Frame .. Stack

NativeAddr(s, segment, offset) ==
  LET base == IF segment = Frame
              THEN nativeFrames[Len(nativeFrames)].localBase ELSE 0
  IN  When(/\ segment \in NativeSegment
           /\ segment = Frame => nativeFrames # << >>
           /\ base + offset <= AddressIndexMask,
           NativePushed(s, "Address", MakeAddress(segment, base + offset)))

NativeOffset(s) ==
  LET base == Operand(s, 4, 2)
      index == AddressIndex(base) + Signed(Operand(s, 4, 1))
  IN  When(Len(s) >= 8 /\ index \in 0 .. AddressIndexMask,
           NativePushed(Truncate(s, 8), "Address",
                        MakeAddress(AddressSegment(base), index)))

NativeDereference(s, kind) ==
  LET n == KindSize(kind)
      address == Operand(s, 4, 1)
      rest == Truncate(s, 4)
      segment == AddressSegment(address)
      source == IF segment = Stack THEN rest ELSE nativeMemory[segment]
  IN  When(/\ n > 0
           /\ Len(s) >= 4
           /\ segment \in NativeSegment
           /\ InSegment(source, AddressIndex(address), n),
           NativePushed(rest, kind,
                        Decode(ReadBytes(source, AddressIndex(address), n))))

(* The value is popped first; only the write itself checks the bounds. *)
NativeAssign(s, kind) ==
  LET n == KindSize(kind)
      address == Operand(s, 4, 1)
      popped == Truncate(s, 4 + n)
      segment == AddressSegment(address)
      destination == IF segment = Stack THEN popped ELSE nativeMemory[segment]
  IN  When(/\ n > 0
           /\ Len(s) >= 4 + n
           /\ segment \in NativeSegment \ {Const}
           /\ InSegment(destination, AddressIndex(address), n),
           Defined(popped))

NativeAssigned(s, kind) ==
  LET n == KindSize(kind)
      address == Operand(s, 4, 1)
      popped == [nativeMemory EXCEPT ![Stack] = Truncate(s, 4 + n)]
  IN  [popped EXCEPT ![AddressSegment(address)] =
         WriteBytes(@, AddressIndex(address), Top(Truncate(s, 4), n))]

-----------------------------------------------------------------------------
(* Clock and timers.  A slot with the end time 0 is stopped, and a stopped *)
(* timer is done; so is one started or reset with the duration 0.          *)

TickedAt(time, now) ==
  [current  |-> now,
   ticks    |-> (time.ticks + 1) % TickBase,
   tickTime |-> IF time.ticks = 0 THEN 0
                ELSE (now - time.current) % (MaxTime + 1)]

NativeSaturatingAddRaw(left, right) == left + right
NativeSaturatingAdd(left, right) ==
  IF MaxTime - left < right THEN MaxTime ELSE left + right

EndTime(duration) ==
  IF duration = 0 THEN 0 ELSE NativeSaturatingAdd(nativeTime.current, duration)

TimerAfter(op, id, duration) ==
  CASE op = "TimerStart" ->
         [durationMS |-> duration, endTimeMS |-> EndTime(duration)]
    [] op = "TimerStop" -> [durationMS |-> 0, endTimeMS |-> 0]
    [] op = "TimerReset" ->
         [nativeTimers[id] EXCEPT !.endTimeMS =
            EndTime(nativeTimers[id].durationMS)]
    [] op = "TimerDone" -> nativeTimers[id]

NativeTimerDoneAtDeadline(id) ==
  nativeTimers[id].endTimeMS > 0 =>
    nativeTime.current >= nativeTimers[id].endTimeMS
NativeTimerDone(id) ==
  nativeTimers[id].endTimeMS > 0 =>
    nativeTime.current > nativeTimers[id].endTimeMS

NativeTimer(s, kind, op) ==
  LET below == SlotStack(s, op)
      id == Operand(below, 1, 1)
      rest == Truncate(below, 1)
  IN  When(/\ kind = TimerKind(op)
           /\ op = "TimerStart" => Len(s) >= 4
           /\ Len(below) >= 1
           /\ id \in TimerId,
           IF op = "TimerDone"
             THEN NativePushed(rest, "Bool", IF NativeTimerDone(id) THEN 1 ELSE 0)
             ELSE Defined(rest))

NativeTickTime(s, kind) ==
  When(kind = "Int32", NativePushed(s, kind, nativeTime.tickTime))

-----------------------------------------------------------------------------
(* Entering a function: what the code asserts on the way. *)

NativeEnterable(p, f, s, base, depth) ==
  /\ f < Len(p.functions)
  /\ depth < CallFrameCapacity
  /\ LET fn == p.functions[f + 1]
     IN  /\ ParamsInRange(p, fn)
         /\ base + fn.frameByteSize <= FrameCapacity
         /\ ParamsFit(p, fn)
         /\ ArgumentBytes(p, fn, 1) <= Len(s)

NativeEnter(f, memoryBefore, frames, base, returnPC) ==
  LET fn == nativeProgram.functions[f + 1]
  IN  /\ nativeMemory' = Entered(nativeProgram, fn, memoryBefore, base)
      /\ nativeFrames' = Append(frames, Activation(fn, base, returnPC))
      /\ nativeFrameTop' = base + fn.frameByteSize
      /\ nativePC' = fn.bodyAddress

Break ==
  /\ nativeMode' = "broken"
  /\ UNCHANGED << nativeMemory, nativePC, nativeCallVars, nativeTimeVars >>

-----------------------------------------------------------------------------
(* One iteration of the loop of run_vm. *)

NativeStack == nativeMemory[Stack]
NativeInstr == nativeProgram.text[nativePC + 1]

NativeFetch(op) ==
  /\ nativeMode = "script"
  /\ nativePC < Len(nativeProgram.text)
  /\ NativeInstr.op = op
  /\ UNCHANGED nativeBinding

ContinueAt(target, mem) ==
  /\ nativePC' = target
  /\ nativeMemory' = mem
  /\ UNCHANGED << nativeMode, nativeCallVars >>

NativeOperate(outcome) ==
  \/ ~ outcome.defined /\ Break
  \/ /\ outcome.defined
     /\ ContinueAt(nativePC + 1, [nativeMemory EXCEPT ![Stack] = outcome.stack])
     /\ UNCHANGED nativeTimeVars

NativeDoesPush ==
  NativeFetch("Push") /\
    NativeOperate(NativePush(NativeStack, NativeInstr.kind, NativeInstr.arg))
NativeDoesArithmetic ==
  NativeFetch("Arithmetic") /\
    NativeOperate(NativeArithmetic(NativeStack, NativeInstr.kind, NativeInstr.sub))
NativeDoesConvert ==
  NativeFetch("Convert") /\
    NativeOperate(NativeConversion(NativeStack, NativeInstr.from, NativeInstr.kind))
NativeDoesAddr ==
  NativeFetch("Addr") /\
    NativeOperate(NativeAddr(NativeStack, NativeInstr.segment, NativeInstr.arg))
NativeDoesOffset ==
  NativeFetch("Offset") /\ NativeOperate(NativeOffset(NativeStack))
NativeDoesDereference ==
  NativeFetch("Dereference") /\
    NativeOperate(NativeDereference(NativeStack, NativeInstr.kind))
NativeDoesCompare ==
  NativeFetch("Compare") /\
    NativeOperate(NativeComparison(NativeStack, NativeInstr.kind, NativeInstr.sub))
NativeDoesTickTime ==
  NativeFetch("BuiltIn") /\ NativeInstr.sub = "TickTime" /\
    NativeOperate(NativeTickTime(NativeStack, NativeInstr.kind))

NativeDoesAssign ==
  /\ NativeFetch("Assign")
  /\ LET outcome == NativeAssign(NativeStack, NativeInstr.kind)
     IN  \/ ~ outcome.defined /\ Break
         \/ /\ outcome.defined
            /\ ContinueAt(nativePC + 1,
                          NativeAssigned(NativeStack, NativeInstr.kind))
            /\ UNCHANGED nativeTimeVars

NativeDoesTimer ==
  /\ NativeFetch("BuiltIn")
  /\ NativeInstr.sub \in TimerBuiltIn
  /\ LET op == NativeInstr.sub
         outcome == NativeTimer(NativeStack, NativeInstr.kind, op)
         id == Operand(SlotStack(NativeStack, op), 1, 1)
     IN  \/ ~ outcome.defined /\ Break
         \/ /\ outcome.defined
            /\ ContinueAt(nativePC + 1,
                          [nativeMemory EXCEPT ![Stack] = outcome.stack])
            /\ nativeTimers' =
                 [nativeTimers EXCEPT ![id] =
                    TimerAfter(op, id, Operand(NativeStack, 4, 1))]
            /\ UNCHANGED nativeTime

NativeJumpTo(target, mem) ==
  \/ target >= Len(nativeProgram.text) /\ Break
  \/ /\ target < Len(nativeProgram.text)
     /\ ContinueAt(target, mem)
     /\ UNCHANGED nativeTimeVars

NativeDoesJump ==
  NativeFetch("Jump") /\ NativeJumpTo(NativeInstr.arg, nativeMemory)

NativeDoesJumpIfFalse ==
  /\ NativeFetch("JumpIfFalse")
  /\ LET popped == [nativeMemory EXCEPT ![Stack] = Truncate(@, 1)]
     IN  \/ Len(NativeStack) < 1 /\ Break
         \/ /\ Len(NativeStack) >= 1
            /\ Operand(NativeStack, 1, 1) # 0
            /\ ContinueAt(nativePC + 1, popped)
            /\ UNCHANGED nativeTimeVars
         \/ /\ Len(NativeStack) >= 1
            /\ Operand(NativeStack, 1, 1) = 0
            /\ NativeJumpTo(NativeInstr.arg, popped)

NativeDoesCall ==
  /\ NativeFetch("Call")
  /\ LET enterable == NativeEnterable(nativeProgram, NativeInstr.arg, NativeStack,
                                      nativeFrameTop, Len(nativeFrames))
     IN  \/ ~ enterable /\ Break
         \/ /\ enterable
            /\ NativeEnter(NativeInstr.arg, nativeMemory, nativeFrames,
                           nativeFrameTop, nativePC + 1)
            /\ UNCHANGED << nativeMode, nativeTimeVars >>

NativeDoesCallExtern ==
  /\ NativeFetch("CallExtern")
  /\ \/ ~ nativeDispatcher /\ Break
     \/ /\ nativeDispatcher
        /\ nativeMode' = "host"
        /\ nativePC' = nativePC + 1
        /\ UNCHANGED << nativeMemory, nativeCallVars, nativeTimeVars >>

NativeDoesRet ==
  /\ NativeFetch("Ret")
  /\ LET frame == nativeFrames[Len(nativeFrames)]
         returns == /\ nativeFrames # << >>
                    /\ KindSize(frame.returnKind) <= Len(NativeStack)
     IN  \/ ~ returns /\ Break
         \/ /\ returns
            /\ nativeFrames' = BelowTop(nativeFrames)
            /\ nativeFrameTop' = frame.localBase
            /\ IF Len(nativeFrames) = 1
                 THEN nativeMode' = "idle" /\ UNCHANGED nativePC
                 ELSE nativePC' = frame.returnPC /\ UNCHANGED nativeMode
            /\ UNCHANGED << nativeMemory, nativeTimeVars >>

(* An opcode of no instruction, or an instruction that the text cuts off. *)
NativeDoesUnknown ==
  \E op \in {"Unknown", "Truncated"} : NativeFetch(op) /\ Break

NativeEndOfText ==
  /\ nativeMode = "script"
  /\ nativePC >= Len(nativeProgram.text)
  /\ nativeMode' = "idle"
  /\ UNCHANGED << nativeMemory, nativePC, nativeCallVars, nativeBinding,
                  nativeTimeVars >>

NativeExecute ==
  \/ NativeDoesPush \/ NativeDoesArithmetic \/ NativeDoesConvert
  \/ NativeDoesAddr \/ NativeDoesOffset \/ NativeDoesDereference
  \/ NativeDoesAssign \/ NativeDoesCompare \/ NativeDoesTickTime
  \/ NativeDoesTimer \/ NativeDoesJump \/ NativeDoesJumpIfFalse
  \/ NativeDoesCall \/ NativeDoesCallExtern \/ NativeDoesRet
  \/ NativeDoesUnknown \/ NativeEndOfText

-----------------------------------------------------------------------------
(* The host. *)

(* What load_program asks of a program.  Its storage it asserts; the check *)
(* of the contents it calls, and drops the answer: the host must know.     *)
NativeAccepts(p) ==
  /\ p.functions # << >>
  /\ p.entryPoint < Len(p.functions)
  /\ Len(p.paramKinds) = Len(p.paramOffsets)
  /\ \A i \in DOMAIN p.paramKinds : p.paramKinds[i] \notin {"None", "Void"}
  /\ \A f \in DOMAIN p.functions :
       LET fn == p.functions[f]
       IN  /\ fn.bodyAddress < Len(p.text)
           /\ fn.returnKind # "None"
           /\ fn.paramStart + fn.paramCount <= Len(p.paramKinds)
           /\ fn.frameByteSize <= FrameCapacity
  /\ p.bssByteSize <= GlobalCapacity
  /\ Len(p.dataData) <= GlobalCapacity

NativeLoad(p) ==
  /\ nativeMode = "idle"
  /\ NativeAccepts(p)
  /\ nativeProgram \in {NoProgram, p}
  /\ nativeProgram' = p
  /\ nativeMemory' = [nativeMemory EXCEPT ![BSS] = Zeroes(p.bssByteSize),
                                          ![Data] = p.dataData,
                                          ![Const] = p.constData]
  /\ nativeTimers' = NoTimers
  /\ UNCHANGED << nativeMode, nativePC, nativeCallVars, nativeDispatcher,
                  nativeTime >>

RestartedMemoryClearsGlobals ==
  [nativeMemory EXCEPT ![Stack] = << >>, ![Frame] = Zeroes(Len(@)),
                       ![BSS] = Zeroes(Len(@))]
RestartedMemory ==
  [nativeMemory EXCEPT ![Stack] = << >>, ![Frame] = Zeroes(Len(@))]

EntryTakesParameters ==
  nativeProgram.functions[nativeProgram.entryPoint + 1].paramCount # 0

(* The frame of the entry function fits: load_program has seen to it. *)
NativeRestart(modeAfter) ==
  /\ ~ EntryTakesParameters
  /\ NativeEnter(nativeProgram.entryPoint, RestartedMemory, << >>, 0, 0)
  /\ nativeMode' = modeAfter

NativeReset ==
  /\ nativeMode = "idle"
  /\ nativeProgram # NoProgram
  /\ \/ EntryTakesParameters /\ Break
     \/ NativeRestart("idle") /\ UNCHANGED nativeTimeVars
  /\ UNCHANGED nativeBinding

(* Any time will do; the code subtracts the last one from it. *)
NativeRun(now) ==
  /\ nativeMode = "idle"
  /\ nativeProgram # NoProgram
  /\ \/ EntryTakesParameters /\ Break
     \/ /\ NativeRestart("script")
        /\ nativeTime' = TickedAt(nativeTime, now)
        /\ UNCHANGED nativeTimers
  /\ UNCHANGED nativeBinding

NativeHostStack(outcome) ==
  /\ nativeMode = "host"
  /\ \/ ~ outcome.defined /\ Break
     \/ /\ outcome.defined
        /\ ContinueAt(nativePC, [nativeMemory EXCEPT ![Stack] = outcome.stack])
        /\ UNCHANGED nativeTimeVars
  /\ UNCHANGED nativeBinding

NativeHostPush(kind, value) ==
  NativeHostStack(NativePushed(NativeStack, kind, value))

NativeHostPop(kind) ==
  NativeHostStack(When(KindSize(kind) > 0 /\ Len(NativeStack) >= KindSize(kind),
                       Defined(Truncate(NativeStack, KindSize(kind)))))

NativeReturn ==
  /\ nativeMode = "host"
  /\ nativeMode' = "script"
  /\ UNCHANGED << nativeMemory, nativePC, nativeCallVars, nativeBinding,
                  nativeTimeVars >>

NativeRegister(registered) ==
  /\ nativeDispatcher' = registered
  /\ UNCHANGED << nativeMode, nativeMemory, nativePC, nativeCallVars,
                  nativeProgram, nativeTimeVars >>

-----------------------------------------------------------------------------
(* The native memory, frames, clock and timers are in their ranges: what   *)
(* the code asserts on the way keeps every byte inside its storage, and no *)
(* deadline wraps.                                                         *)
NativeTypeOK ==
  /\ nativeMode \in {"idle", "script", "host", "broken"}
  /\ nativeProgram \in Programs \cup {NoProgram}
  /\ nativeMemory \in [Segment -> Bytes]
  /\ Len(nativeMemory[Frame]) = FrameCapacity
  /\ Len(nativeMemory[Stack]) <= StackCapacity
  /\ nativePC \in Nat
  /\ nativeFrameTop \in 0 .. FrameCapacity
  /\ Len(nativeFrames) <= CallFrameCapacity
  /\ nativeFrames \in Seq([returnPC : Nat, localBase : 0 .. FrameCapacity,
                           returnKind : Kind])
  /\ nativeDispatcher \in BOOLEAN
  /\ nativeTime \in [current : 0 .. MaxTime, ticks : 0 .. TickBase - 1,
                     tickTime : 0 .. MaxTime]
  /\ nativeTimers \in [TimerId -> [endTimeMS : 0 .. MaxTime,
                                   durationMS : 0 .. MaxTime]]

(* A script's globals outlive its ticks, as the README promises: nothing   *)
(* but an instruction of the script changes them, except a load, which     *)
(* gives them their initial values - a run that starts, a reset, a host    *)
(* that pops and pushes do not; and a tick starts with an empty stack.     *)
TicksKeepGlobals ==
  [][ /\ nativeMode # "script" /\ nativeProgram' # NoProgram =>
           \/ \A segment \in {BSS, Data} :
                nativeMemory'[segment] = nativeMemory[segment]
           \/ /\ nativeMode = "idle" /\ nativeMode' = "idle"
              /\ nativeMemory'[BSS] = Zeroes(nativeProgram'.bssByteSize)
              /\ nativeMemory'[Data] = nativeProgram'.dataData
      /\ nativeMode = "idle" /\ nativeMode' = "script" =>
           nativeMemory'[Stack] = << >> ]_nativeVars
=============================================================================
