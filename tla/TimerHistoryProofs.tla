------------------------- MODULE TimerHistoryProofs -------------------------
(***************************************************************************)
(* timerDone is right for every capacity, every largest time and every     *)
(* sequence of runs.  The inductive invariant says what a slot's deadline  *)
(* is made of: its last start, its duration, and the saturation.           *)
(***************************************************************************)
EXTENDS MCTimers, ScriptVMProofs

(* The deadline of a running slot is its start plus its duration, unless   *)
(* that sum saturates; the start lies in the past.                         *)
DeadlineInv ==
  /\ startedAt \in [TimerId -> 0 .. MaxTime]
  /\ \A id \in TimerId :
       /\ startedAt[id] <= currentTime
       /\ timers[id].active =>
            timers[id].endTimeMS =
              SaturatingAdd(startedAt[id], timers[id].durationMS)

HistoryInv == TimeTypeOK /\ ClockUnset /\ DeadlineInv

(* Without the history variable a step is a step of VMTime. *)
LEMMA HistoryStepIsTimeStep == [HistoryNext]_historyVars => [TimeNext]_timeVars
BY DEF HistoryNext, historyVars, TimeNext, timeVars, Tick, Start, Stop, Restart

(* TimerHistory adds nothing to VMTime but the history. *)
THEOREM HistoryImplementsTime == HistorySpec => TimeSpec
<1>1. HistoryInit => TimeInit
  BY DEF HistoryInit
<1>2. QED
  BY <1>1, HistoryStepIsTimeStep, PTL DEF HistorySpec, TimeSpec

LEMMA HistoryInvInit == HistoryInit => HistoryInv
<1> SUFFICES ASSUME HistoryInit PROVE HistoryInv
  OBVIOUS
<1>1. TimeTypeOK /\ ClockUnset
  BY TimeTypeInit DEF HistoryInit, TimeInit, ClockUnset
<1>2. startedAt \in [TimerId -> 0 .. MaxTime]
  BY TimeAssumption DEF HistoryInit
<1>3. \A id \in TimerId : startedAt[id] <= currentTime /\ ~ timers[id].active
  BY DEF HistoryInit, TimeInit
<1>4. QED
  BY <1>1, <1>2, <1>3 DEF HistoryInv, DeadlineInv

LEMMA HistoryInvStep == HistoryInv /\ [HistoryNext]_historyVars => HistoryInv'
<1> SUFFICES ASSUME HistoryInv, [HistoryNext]_historyVars
             PROVE  HistoryInv'
  OBVIOUS
<1>1. TimeTypeOK' /\ ClockUnset' /\ currentTime' >= currentTime
  BY HistoryStepIsTimeStep, TimeTypeStep, ClockUnsetStep, ClockRises
     DEF HistoryInv
<1>2. DeadlineInv'
  <2>1. ASSUME NEW now \in Times, Tick(now)
        PROVE  DeadlineInv'
    BY <2>1, <1>1
       DEF Tick, BeginTick, HistoryInv, DeadlineInv, TimeTypeOK, SaturatingAdd
  <2>2. ASSUME NEW id \in TimerId, NEW duration \in Durations,
               Start(id, duration)
        PROVE  DeadlineInv'
    BY <2>2, TimeAssumption
       DEF Start, TimerStart, clockVars, HistoryInv, DeadlineInv, TimeTypeOK,
           TimerSlot, SaturatingAdd
  <2>3. ASSUME NEW id \in TimerId, Stop(id)
        PROVE  DeadlineInv'
    BY <2>3
       DEF Stop, TimerStop, clockVars, HistoryInv, DeadlineInv, TimeTypeOK,
           TimerSlot, SaturatingAdd
  <2>4. ASSUME NEW id \in TimerId, Restart(id)
        PROVE  DeadlineInv'
    BY <2>4
       DEF Restart, TimerReset, clockVars, HistoryInv, DeadlineInv, TimeTypeOK,
           TimerSlot, SaturatingAdd
  <2>5. CASE UNCHANGED historyVars
    BY <2>5 DEF historyVars, HistoryInv, DeadlineInv, SaturatingAdd
  <2>6. QED
    BY <2>1, <2>2, <2>3, <2>4, <2>5 DEF HistoryNext
<1>3. QED
  BY <1>1, <1>2 DEF HistoryInv

LEMMA DeadlineMeansElapsed == HistoryInv => DoneMeansElapsed
BY TimeAssumption
   DEF HistoryInv, DeadlineInv, DoneMeansElapsed, TimeTypeOK, TimerSlot,
       TimerDone, SaturatingAdd

(* timerDone never reports early, and never misses, whatever the host's    *)
(* times and the scripts' durations; saturation included.                  *)
THEOREM DoneCorrect == HistorySpec => []DoneMeansElapsed
<1>1. QED
  BY HistoryInvInit, HistoryInvStep, DeadlineMeansElapsed, PTL DEF HistorySpec

-----------------------------------------------------------------------------
(* The virtual machine keeps the history: of its instructions and host     *)
(* calls, those that touch clock or timers do what TimerHistory says.      *)

(* Inside a run the clock has been set. *)
ClockInRun == mode # "idle" => hasCurrentTime

(* The slot and the duration of the timer built-in at pc. *)
SlotAt == Operand(SlotStack(OperandStack, Instr.sub), 1, 1)
DurationAt == Operand(OperandStack, 4, 1)

LEMMA NothingRestarted ==
  ASSUME \/ mode # "script"
         \/ pc >= Len(running.text) /\ running.text \in Seq(Instruction) /\ pc \in Nat
         \/ Instr.op # "BuiltIn"
         \/ Instr.sub \notin {"TimerStart", "TimerReset"}
         \/ TimerResult(OperandStack, Instr.kind, Instr.sub).status # "OK"
  PROVE  Restarted = {}
BY DEF Restarted

LEMMA ExecuteTime ==
  ASSUME TypeInv, Execute
  PROVE  \/ UNCHANGED timeVars /\ Restarted = {}
         \/ /\ Timer
            /\ TimerResult(OperandStack, Instr.kind, Instr.sub).status = "OK"
            /\ TimerEffect(OperandStack, Instr.sub)
<1>1. CASE Push \/ Arithmetic \/ Convert \/ Addr \/ Offset \/ Dereference
             \/ Compare \/ Assign \/ Jump \/ JumpIfFalse \/ Call \/ CallExtern
             \/ Ret \/ Unknown \/ Truncated
  BY <1>1, NothingRestarted
     DEF Push, Arithmetic, Convert, Addr, Offset, Dereference, Compare, Assign,
         Jump, JumpIfFalse, Call, CallExtern, Ret, Unknown, Truncated, Fetch
<1>2. CASE BuiltIn
  BY <1>2, NothingRestarted DEF BuiltIn, TimerBuiltIn
<1>3. CASE Timer
  BY <1>3, NothingRestarted DEF Timer
<1>4. CASE EndOfText
  <2>1. running \in LinkedProgram /\ pc \in Nat
    BY <1>4, VMAssumption DEF EndOfText, TypeInv, FlowType
  <2>2. QED
    BY <1>4, <2>1, NothingRestarted DEF EndOfText, LinkedProgram
<1>5. QED
  BY <1>1, <1>2, <1>3, <1>4 DEF Execute

LEMMA HostTime ==
  ASSUME Host
  PROVE  /\ Restarted = {}
         /\ \/ UNCHANGED timeVars
            \/ mode = "idle" /\ \E now \in Times : BeginTick(now)
<1>1. mode # "script"
  BY DEF Host, HostPop, HostPush, HostStackOperation, AllocateExternMemory,
         StoreExternInt32, SetExtern, RegisterExternDispatcher, LoadProgram,
         Reset, ResetVM, RunLoaded, HostReturn, HostActs, HostMayReload
<1>2. Restarted = {}
  BY <1>1, NothingRestarted
<1>3. \/ UNCHANGED timeVars
      \/ mode = "idle" /\ \E now \in Times : BeginTick(now)
  BY DEF Host, HostPop, HostPush, HostStackOperation, AllocateExternMemory,
         StoreExternInt32, SetExtern, RegisterExternDispatcher, LoadProgram,
         Reset, RunLoaded, HostReturn
<1>4. QED
  BY <1>2, <1>3

LEMMA ClockInRunStep ==
  ASSUME TypeInv, ClockInRun, [Next]_vars
  PROVE  ClockInRun'
<1>1. CASE UNCHANGED vars
  BY <1>1 DEF vars, vmVars, timeVars, ClockInRun
<1>2. CASE Execute
  <2>1. mode = "script"
    BY <1>2 DEF Execute, Push, Arithmetic, Convert, Addr, Offset, Dereference,
         Assign, Compare, Jump, JumpIfFalse, Call, CallExtern, Ret, BuiltIn,
         Timer, Unknown, Truncated, EndOfText, Fetch
  <2>2. UNCHANGED hasCurrentTime
    BY <1>2, ExecuteTime
       DEF timeVars, TimerEffect, TimerStart, TimerStop, TimerReset, clockVars
  <2>3. QED
    BY <2>1, <2>2 DEF ClockInRun
<1>3. CASE Host
  <2>1. mode' = "idle" \/ mode # "idle" \/ hasCurrentTime'
    BY <1>3
       DEF Host, HostPop, HostPush, HostStackOperation, AllocateExternMemory,
           StoreExternInt32, SetExtern, RegisterExternDispatcher, LoadProgram,
           Reset, ResetVM, RunLoaded, BeginTick, HostReturn
  <2>2. mode # "idle" => UNCHANGED hasCurrentTime
    BY <1>3, HostTime DEF timeVars
  <2>3. QED
    BY <2>1, <2>2 DEF ClockInRun
<1>4. QED
  BY <1>1, <1>2, <1>3 DEF Next

(* One step, on the condition that Durations holds every duration that an  *)
(* operand of timerStart can be.                                           *)
LEMMA RememberedStep ==
  ASSUME 0 .. WordBase - 1 \subseteq Durations, TypeInv, ClockInRun,
         startedAt \in [TimerId -> 0 .. MaxTime], RememberedNext
  PROVE  [HistoryNext]_historyVars
<1> DEFINE result1 == TimerResult(OperandStack, Instr.kind, Instr.sub)
           restarted(ids) == [id \in TimerId |->
                                IF id \in ids THEN currentTime ELSE startedAt[id]]
<1>1. startedAt' = restarted(Restarted)
  BY DEF RememberedNext
<1>2. restarted({}) = startedAt
  OBVIOUS
<1>3. ASSUME NEW id \in TimerId
      PROVE  restarted({id}) = [startedAt EXCEPT ![id] = currentTime]
  OBVIOUS
<1> HIDE DEF restarted
<1>4. CASE UNCHANGED timeVars /\ Restarted = {}
  BY <1>1, <1>2, <1>4 DEF historyVars, timeVars
<1>5. CASE Host
  <2>1. UNCHANGED startedAt
    BY <1>1, <1>2, <1>5, HostTime
  <2>2. QED
    BY <1>5, <2>1, HostTime DEF HistoryNext, Tick, historyVars, timeVars
<1>6. CASE Timer /\ result1.status = "OK" /\ TimerEffect(OperandStack, Instr.sub)
  <2>1. Fetch("BuiltIn") /\ Instr.sub \in TimerBuiltIn /\ mode = "script"
          /\ pc < Len(running.text) /\ Instr.op = "BuiltIn"
    BY <1>6 DEF Timer, Fetch
  <2>2. OperandStack \in StackBytes /\ Instr.kind \in Kind
    BY <2>1, FetchedInstruction DEF Instruction
  <2>3. SlotAt \in TimerId /\ (Instr.sub = "TimerStart" => DurationAt \in Word)
    BY <1>6, <2>1, <2>2, TimerType DEF SlotAt, DurationAt
  <2>4. Instr.sub \in {"TimerStart", "TimerReset"} => Restarted = {SlotAt}
    BY <1>6, <2>1, <2>3 DEF Restarted, SlotAt
  <2>5. Instr.sub \notin {"TimerStart", "TimerReset"} => Restarted = {}
    BY NothingRestarted
  <2>6. hasCurrentTime
    BY <2>1 DEF ClockInRun
  <2>7. CASE Instr.sub = "TimerStart"
    <3>1. TimerStart(SlotAt, DurationAt)
      BY <1>6, <2>7 DEF TimerEffect, SlotAt, DurationAt
    <3>2. startedAt' = [startedAt EXCEPT ![SlotAt] = currentTime]
      BY <1>1, <1>3, <2>3, <2>4, <2>7
    <3>3. DurationAt \in Durations
      BY <2>3, <2>7 DEF Word
    <3>4. QED
      BY <2>3, <2>6, <3>1, <3>2, <3>3 DEF HistoryNext, Start
  <2>8. CASE Instr.sub = "TimerReset"
    <3>1. TimerReset(SlotAt)
      BY <1>6, <2>8 DEF TimerEffect, SlotAt
    <3>2. startedAt' = [startedAt EXCEPT ![SlotAt] = currentTime]
      BY <1>1, <1>3, <2>3, <2>4, <2>8
    <3>3. QED
      BY <2>3, <2>6, <3>1, <3>2 DEF HistoryNext, Restart
  <2>9. CASE Instr.sub = "TimerStop"
    <3>1. TimerStop(SlotAt)
      BY <1>6, <2>9 DEF TimerEffect, SlotAt
    <3>2. UNCHANGED startedAt
      BY <1>1, <1>2, <2>5, <2>9
    <3>3. QED
      BY <2>3, <2>6, <3>1, <3>2 DEF HistoryNext, Stop
  <2>10. CASE Instr.sub = "TimerDone"
    <3>1. UNCHANGED timeVars
      BY <1>6, <2>10 DEF TimerEffect
    <3>2. UNCHANGED startedAt
      BY <1>1, <1>2, <2>5, <2>10
    <3>3. QED
      BY <3>1, <3>2 DEF historyVars, timeVars
  <2>11. QED
    BY <2>1, <2>7, <2>8, <2>9, <2>10 DEF TimerBuiltIn
<1>7. QED
  BY <1>4, <1>5, <1>6, ExecuteTime DEF RememberedNext, Next

(* What holds in every state of the VM with the history variable. *)
RememberedInv == TypeInv /\ ClockInRun /\ HistoryInv

LEMMA RememberedInvStep ==
  ASSUME 0 .. WordBase - 1 \subseteq Durations
  PROVE  RememberedInv /\ [RememberedNext]_<< vars, startedAt >>
           => RememberedInv' /\ [HistoryNext]_historyVars
<1> SUFFICES ASSUME RememberedInv, [RememberedNext]_<< vars, startedAt >>
             PROVE  RememberedInv' /\ [HistoryNext]_historyVars
  OBVIOUS
<1>1. [Next]_vars
  BY DEF RememberedNext
<1>2. TypeInv' /\ ClockInRun'
  BY <1>1, TypeInvStep, ClockInRunStep DEF RememberedInv
<1>3. [HistoryNext]_historyVars
  <2>1. CASE RememberedNext
    BY <2>1, RememberedStep DEF RememberedInv, HistoryInv, DeadlineInv
  <2>2. CASE UNCHANGED << vars, startedAt >>
    BY <2>2 DEF vars, timeVars, historyVars
  <2>3. QED
    BY <2>1, <2>2
<1>4. HistoryInv'
  BY <1>3, HistoryInvStep DEF RememberedInv
<1>5. QED
  BY <1>2, <1>3, <1>4 DEF RememberedInv

LEMMA RememberedInvInit == RememberedInit => RememberedInv
<1> SUFFICES ASSUME RememberedInit PROVE RememberedInv
  OBVIOUS
<1>1. HistoryInit
  BY DEF RememberedInit, Init, HistoryInit
<1>2. TypeInv /\ ClockInRun
  BY TypeInvInit DEF RememberedInit, Init, VMInit, ClockInRun
<1>3. QED
  BY <1>1, <1>2, HistoryInvInit DEF RememberedInv

(* For all programs, hosts, capacities and largest times, a behaviour of   *)
(* the VM is a behaviour of the timers' specification: only a timer        *)
(* built-in that succeeded touches a slot, and only the one it names; the  *)
(* clock moves at the start of a run and never back.                       *)
THEOREM TimersKeepHistory ==
  ASSUME 0 .. WordBase - 1 \subseteq Durations
  PROVE  RememberedSpec => KeepsHistory
<1>1. RememberedInit => HistoryInit
  BY DEF RememberedInit, Init, HistoryInit
<1>2. QED
  BY <1>1, RememberedInvInit, RememberedInvStep, PTL
     DEF RememberedSpec, KeepsHistory

(* So timerDone, asked by any script at any time, is true exactly when     *)
(* more than the slot's duration has passed since its last start or reset. *)
THEOREM VMDoneCorrect ==
  ASSUME 0 .. WordBase - 1 \subseteq Durations
  PROVE  RememberedSpec => []DoneMeansElapsed
<1>1. RememberedInv => DoneMeansElapsed
  BY DeadlineMeansElapsed DEF RememberedInv
<1>2. QED
  BY <1>1, RememberedInvInit, RememberedInvStep, PTL DEF RememberedSpec
=============================================================================
