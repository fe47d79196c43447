----------------------------- MODULE MCRuntimes -----------------------------
(***************************************************************************)
(* Both runtimes over the programs of MCTimers and some that call, fault   *)
(* and keep globals, with the history of the Go VM's timers.               *)
(***************************************************************************)
EXTENDS MCTimers, TwoRuntimes

(* A counter in Data, and one of the entry functions that takes a          *)
(* parameter, which a load lets through and a run does not.                *)
Counting ==
  [Main(<< At(Data, 0), Load("Uint8"), Byte1(1), Calc("Uint8", "Add"),
           At(Data, 0), Store("Uint8") >>)
   EXCEPT !.dataByteSize = 1, !.dataData = << 6 >>]

EntryWithParameter ==
  [Image(<< Return >>, << Fn(0, 0, 1, 1, "Void") >>)
   EXCEPT !.paramKinds = << "Uint8" >>, !.paramOffsets = << 0 >>]

(* main adds the result of f(2) to a global; f asks the host for a number  *)
(* and branches on it.                                                     *)
Asking ==
  [Image(
     << Lit("Uint8", 2), To("Call", 1), At(BSS, 0), Store("Uint8"), Return,
        To("CallExtern", 0), To("JumpIfFalse", 9),
        At(Frame, 0), Load("Uint8"), Return >>,
     << Fn(0, 0, 0, 1, "Void"), Fn(5, 0, 1, 1, "Uint8") >>)
   EXCEPT !.paramKinds = << "Uint8" >>, !.paramOffsets = << 0 >>,
          !.bssByteSize = 1]

(* Comparisons, jumps and an index; and one failure of each kind. *)
Computing ==
  [Main(<< Byte1(1), Byte1(2), Test("Uint8", "Less"), To("JumpIfFalse", 11),
           To("Jump", 5), At(Data, 0), Lit("Int32", 1), Op("Offset"),
           Load("Uint8"), At(BSS, 0), Store("Uint8") >>)
   EXCEPT !.dataByteSize = 2, !.dataData = << 5, 6 >>, !.bssByteSize = 1]

Failing ==
  { Main(<< Byte1(0), To("JumpIfFalse", 9) >>),
    Main(<< To("JumpIfFalse", 0) >>),
    Main(<< Byte1(0), At(Const, 0), Store("Uint8") >>),
    Main(<< Op("Unknown") >>),
    Main(<< At(7, 0) >>),
    Main(<< At(7, 0), Load("Uint8") >>),
    Image(<< Return >>, << Fn(0, 0, 0, 0, "Int32") >>) }

RuntimePrograms ==
  TimerPrograms \cup Failing \cup
  { Counting, EntryWithParameter, Asking, Computing, Recursion(1),
    NoReturnProgram }

RuntimesInit == BothInit /\ startedAt = [id \in TimerId |-> 0]

RuntimesNext ==
  /\ BothNext
  /\ startedAt' = [id \in TimerId |->
                     IF id \in Restarted
                     THEN currentTime ELSE startedAt[id]]

RuntimesSpec ==
  RuntimesInit /\
    [][RuntimesNext]_<< vars, nativeVars, apartVars, startedAt >>
=============================================================================
