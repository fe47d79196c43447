------------------------------- MODULE MCTimers -------------------------------
(***************************************************************************)
(* Programs that use the timers and the tick time, run at times the host   *)
(* may also get wrong.  The time of the last start or reset of each slot   *)
(* is remembered as in TimerHistory, so that the VM itself is shown to     *)
(* keep what timerDone promises.                                           *)
(***************************************************************************)
EXTENDS MCScriptVM, TimerHistory

Byte1(value) == Lit("Uint8", value)
Starting(id, duration) ==
  << Byte1(id), Lit("Int32", duration), Math("Void", "TimerStart") >>
Timer1(id, op, kind) == << Byte1(id), Math(kind, op) >>
Keep == << At(BSS, 0), Store("Uint8") >>

InBSS(text) == [Main(text) EXCEPT !.bssByteSize = 1]

TimerPrograms ==
  { InBSS(Starting(1, 2) \o Timer1(1, "TimerDone", "Bool") \o Keep),
    InBSS(Timer1(1, "TimerDone", "Bool") \o Keep),
    InBSS(Timer1(1, "TimerStop", "Void")),
    InBSS(Timer1(1, "TimerReset", "Void")),
    InBSS(Starting(0, 65535) \o Timer1(0, "TimerDone", "Bool") \o Keep),
    InBSS(<< Math("Int32", "TickTime"), Cast("Int32", "Bool") >> \o Keep),
    InBSS(Starting(2, 1)) }

-----------------------------------------------------------------------------
(* The slots that the instruction at pc starts or resets. *)
Restarted ==
  { id \in TimerId :
      /\ mode = "script" /\ pc < Len(running.text)
      /\ Instr.op = "BuiltIn" /\ Instr.sub \in {"TimerStart", "TimerReset"}
      /\ TimerResult(OperandStack, Instr.kind, Instr.sub).status = "OK"
      /\ id = Operand(SlotStack(OperandStack, Instr.sub), 1, 1) }

RememberedInit == Init /\ startedAt = [id \in TimerId |-> 0]

RememberedNext ==
  /\ Next
  /\ startedAt' = [id \in TimerId |->
                     IF id \in Restarted
                     THEN currentTime ELSE startedAt[id]]

RememberedSpec ==
  RememberedInit /\ [][RememberedNext]_<< vars, startedAt >>

(* The VM with its memory of the starts does what TimerHistory says: only  *)
(* the timer built-ins touch a slot, and the time never goes back.         *)
KeepsHistory == HistoryInit /\ [][HistoryNext]_historyVars
=============================================================================
