----------------------------- MODULE TwoRuntimes -----------------------------
(***************************************************************************)
(* The Go VM and the native VM, given the same programs, the same times    *)
(* and the same answers by one host.  The two execute instruction by       *)
(* instruction side by side, as long as both are in their loops; one that  *)
(* is ahead or alone goes on by itself.                                    *)
(*                                                                         *)
(* Where the two are meant to differ, or are known to, the reason is noted *)
(* in a history variable at the moment it arises.  What the module states  *)
(* is that there is no other reason.                                       *)
(***************************************************************************)
EXTENDS NativeVM

Reason == {"globals", "time", "timer", "ticks", "segment", "host"}

VARIABLES
  apart,     \* history: why the two may differ by now
  oneFirst   \* history: this tick is the first one of just one of the clocks

apartVars == << apart, oneFirst >>

BothInit ==
  /\ Init
  /\ NativeInit
  /\ apart = {}
  /\ oneFirst = FALSE

-----------------------------------------------------------------------------
(* A native timer without a duration counts as done, whether it has been   *)
(* stopped, never been started, or wiped by a load; the Go VM keeps the    *)
(* duration of a stopped timer, and all timers over a load.                *)
AsksStoppedTimer ==
  /\ Instr.op = "BuiltIn" /\ Instr.sub = "TimerDone"
  /\ OperandStack # << >>
  /\ Operand(OperandStack, 1, 1) \in TimerId
  /\ nativeTimers[Operand(OperandStack, 1, 1)].durationMS = 0

(* An address in a segment there is not: the native VM refuses to make it, *)
(* the Go VM to use it.                                                    *)
NamesNoSegment == Instr.op = "Addr" /\ Instr.segment \notin NativeSegment

ReasonsOfInstruction ==
  IF pc >= Len(running.text) THEN {}
  ELSE { reason \in {"timer", "ticks", "segment"} :
           \/ reason = "timer" /\ AsksStoppedTimer
           \/ /\ reason = "ticks"
              /\ Instr.op = "BuiltIn" /\ Instr.sub = "TickTime" /\ oneFirst
           \/ reason = "segment" /\ NamesNoSegment }

StepTogether ==
  /\ mode = "script"
  /\ nativeMode = "script"
  /\ Execute
  /\ NativeExecute
  /\ apart' = apart \cup ReasonsOfInstruction
  /\ UNCHANGED oneFirst

StepAlone ==
  /\ \/ /\ mode = "script" /\ nativeMode # "script"
        /\ Execute /\ UNCHANGED nativeVars
     \/ /\ mode # "script" /\ nativeMode = "script"
        /\ NativeExecute /\ UNCHANGED vars
  /\ UNCHANGED apartVars

-----------------------------------------------------------------------------
(* The host: its dispatcher, which does the same in both, and then returns *)
(* to whichever called it.  What it pushes or pops must have a size, and   *)
(* room: Go reports that to it, the native VM breaks;                      *)

HostPushes(kind, value) ==
  /\ mode = "host" /\ HostPush(kind, value)
  /\ NativeHostPush(kind, value)
  /\ apart' = apart \cup
       {reason \in {"host"} :
          \/ KindSize(kind) = 0
          \/ Len(OperandStack) + KindSize(kind) > StackCapacity}
  /\ UNCHANGED oneFirst

HostPops(kind) ==
  /\ mode = "host" /\ HostPop(kind)
  /\ NativeHostPop(kind)
  /\ apart' = apart \cup
       {reason \in {"host"} :
          \/ KindSize(kind) = 0
          \/ Len(OperandStack) < KindSize(kind)}
  /\ UNCHANGED oneFirst

HostReturns ==
  /\ mode # "script" /\ nativeMode # "script"
  /\ "host" \in {mode, nativeMode}
  /\ \/ mode = "host" /\ HostReturn("OK")
     \/ mode # "host" /\ UNCHANGED vars
  /\ \/ nativeMode = "host" /\ NativeReturn
     \/ nativeMode # "host" /\ UNCHANGED nativeVars
  /\ UNCHANGED apartVars

(* and what it does between runs.  It may leave a native VM unused, or     *)
(* replace it by a new one, which is all it can do with a broken one.      *)
BothIdle == mode = "idle" /\ nativeMode = "idle"
Unused == nativeProgram = NoProgram

LoadsBoth(p) ==
  /\ BothIdle
  /\ LoadStatus(p) = "OK" /\ LoadProgram(p)
  /\ NativeLoad(p)
  /\ apart' = apart \cap {"time"}
  /\ UNCHANGED oneFirst

LoadsGo(p) ==
  BothIdle /\ Unused /\ LoadProgram(p) /\ UNCHANGED << nativeVars, apartVars >>

Registers ==
  /\ BothIdle
  /\ ~ hasDispatcher
  /\ RegisterExternDispatcher /\ hasDispatcher'
  /\ NativeRegister(TRUE)
  /\ UNCHANGED apartVars

ResetsBoth ==
  /\ BothIdle
  /\ Reset
  /\ NativeReset
  /\ UNCHANGED apartVars

GlobalsAreInitial ==
  /\ nativeMemory[BSS] = Zeroes(nativeProgram.bssByteSize)
  /\ nativeMemory[Data] = nativeProgram.dataData

RunsBoth(now) ==
  /\ BothIdle
  /\ RunLoaded(now)
  /\ NativeRun(now)
  /\ apart' = apart \cup
       { reason \in {"globals", "time"} :
           \/ reason = "globals" /\ ~ GlobalsAreInitial
           \/ reason = "time" /\ TimeGoesBack(now) }
  /\ oneFirst' = (hasCurrentTime # (nativeTime.ticks # 0))

RunsGo(now) ==
  BothIdle /\ Unused /\ RunLoaded(now) /\ UNCHANGED << nativeVars, apartVars >>

ReplacesNative ==
  /\ mode = "idle"
  /\ nativeMode \in {"idle", "broken"}
  /\ nativeMode' = "idle"
  /\ nativeProgram' = NoProgram
  /\ nativeMemory' = FreshMemory
  /\ nativePC' = 0
  /\ nativeFrames' = << >>
  /\ nativeFrameTop' = 0
  /\ nativeDispatcher' = hasDispatcher
  /\ nativeTime' = FreshTime
  /\ nativeTimers' = NoTimers
  /\ apart' = {}
  /\ oneFirst' = FALSE
  /\ UNCHANGED vars

BothNext ==
  \/ StepTogether
  \/ StepAlone
  \/ \E kind \in HostKinds : HostPops(kind) \/ \E value \in HostValues :
                                                 HostPushes(kind, value)
  \/ HostReturns
  \/ \E p \in Programs : LoadsBoth(p) \/ LoadsGo(p)
  \/ Registers
  \/ ResetsBoth
  \/ \E now \in Times : RunsBoth(now) \/ RunsGo(now)
  \/ ReplacesNative

BothSpec == BothInit /\ [][BothNext]_<< vars, nativeVars, apartVars >>

-----------------------------------------------------------------------------
(* A script behaves the same in both machines: at every instruction and at *)
(* every call of the host they have the same memory and the same frames,   *)
(* and the native one breaks exactly when the Go one reports a fault.  The *)
(* exceptions are the six reasons, each from the moment it arises until   *)
(* the program is loaded again: a tick after the script has changed its    *)
(* globals, which the Go VM gives their initial values; a run at an        *)
(* earlier time, which the Go VM refuses (until the native VM is           *)
(* replaced); a timer asked while it is stopped; the tick time of a tick   *)
(* that is the first for one of the two clocks, which it is again when the *)
(* native count of ticks wraps; an address in a segment there is not; and  *)
(* a push or pop of the host itself that does not fit, which it may ignore *)
(* in Go only.                                                             *)
RuntimesAgree ==
  nativeProgram # NoProgram /\ apart = {} =>
    /\ nativeProgram = program
    /\ nativeMode = "broken" <=> mode = "idle" /\ result # "OK"
    /\ nativeMode # "broken" => nativeMode = mode
    /\ nativeMode \in {"script", "host"} =>
         /\ nativePC = pc
         /\ nativeMemory = memory
         /\ nativeFrames = callFrames
         /\ nativeFrameTop = frameTop
=============================================================================
