----------------------------- MODULE MCScriptVM -----------------------------
(***************************************************************************)
(* Small programs for the model checker, as the compiler and the linker    *)
(* would emit them (or, for the faults, as a damaged image would hold      *)
(* them), and the properties of calls that are stated over whole frames.   *)
(***************************************************************************)
EXTENDS ScriptVM, SequencesExt

-----------------------------------------------------------------------------
(* Assembling. *)

Op(op) == [op |-> op, kind |-> "None", from |-> "None", segment |-> 0,
           sub |-> "", arg |-> 0]
Typed1(op, kind) == [Op(op) EXCEPT !.kind = kind]
To(op, target) == [Op(op) EXCEPT !.arg = target]
Lit(kind, value) == [Typed1("Push", kind) EXCEPT !.arg = value]
At(segment, offset) == [Op("Addr") EXCEPT !.segment = segment, !.arg = offset]
Load(kind) == Typed1("Dereference", kind)
Store(kind) == Typed1("Assign", kind)
Calc(kind, sub) == [Typed1("Arithmetic", kind) EXCEPT !.sub = sub]
Test(kind, sub) == [Typed1("Compare", kind) EXCEPT !.sub = sub]
Cast(from, to) == [Typed1("Convert", to) EXCEPT !.from = from]
Math(kind, sub) == [Typed1("BuiltIn", kind) EXCEPT !.sub = sub]
Return == Op("Ret")

Fn(body, start, count, size, kind) ==
  [bodyAddress |-> body, paramStart |-> start, paramCount |-> count,
   frameByteSize |-> size, returnKind |-> kind]

Image(text, functions) ==
  [text |-> text, functions |-> functions, entryPoint |-> 0,
   paramKinds |-> << >>, paramOffsets |-> << >>,
   constByteSize |-> 0, constData |-> << >>,
   dataByteSize |-> 0, dataData |-> << >>, bssByteSize |-> 0]

Main(text) == Image(text \o << Return >>, << Fn(0, 0, 0, 2, "Void") >>)

-----------------------------------------------------------------------------
(* main stores a local, passes it to f beside a constant, keeps f's result *)
(* in a global, calls the host and copies its local to another global;     *)
(* f has a parameter pair, a local of its own and two returns, and calls   *)
(* g, which calls the host before it computes on its parameter.            *)
CallProgram ==
  [Image(
     << Lit("Int32", 5), At(Frame, 0), Store("Int32"),
        Lit("Uint8", 2), At(Frame, 0), Load("Int32"), To("Call", 1),
        At(Data, 0), Store("Int32"), To("CallExtern", 0),
        At(Frame, 0), Load("Int32"), At(BSS, 0), Store("Int32"), Return,
        (* f, at 15 *)
        At(Frame, 0), Load("Uint8"), To("Call", 2),
        At(Frame, 5), Store("Uint8"), At(Frame, 5), Load("Uint8"),
        To("JumpIfFalse", 26), At(Frame, 1), Load("Int32"), Return,
        Lit("Int32", 1), Return,
        (* g, at 28 *)
        At(Frame, 0), Load("Uint8"), To("CallExtern", 1),
        Lit("Uint8", 1), Calc("Uint8", "Sub"), Return >>,
     << Fn(0, 0, 0, 4, "Void"), Fn(15, 0, 2, 6, "Int32"),
        Fn(28, 2, 1, 2, "Uint8") >>)
   EXCEPT !.paramKinds = << "Uint8", "Int32", "Uint8" >>,
          !.paramOffsets = << 0, 1, 0 >>,
          !.constByteSize = 1, !.constData = << 7 >>,
          !.dataByteSize = 4, !.dataData = << 3, 0, 0, 0 >>,
          !.bssByteSize = 4]

(* f(n) calls itself for ever with a frame of `size` bytes. *)
Recursion(size) ==
  [Image(<< Lit("Uint8", 1), To("Call", 1), Return,
            At(Frame, 0), Load("Uint8"), To("Call", 1), Return >>,
         << Fn(0, 0, 0, 0, "Void"), Fn(3, 0, 1, size, "Uint8") >>)
   EXCEPT !.paramKinds = << "Uint8" >>, !.paramOffsets = << 0 >>,
          !.bssByteSize = 1]

(* The same function entered twice in a row, with a local it never sets:   *)
(* the second entry must not see what the first one left.                  *)
TwiceProgram ==
  [Image(<< Lit("Uint8", 4), To("Call", 1), Lit("Uint8", 9), To("Call", 1),
            Return,
            At(Frame, 1), Load("Uint8"), At(BSS, 0), Store("Uint8"),
            At(Frame, 0), Load("Uint8"), At(Frame, 1), Store("Uint8"),
            Lit("Uint8", 0), At(Frame, 0), Store("Uint8"), Return >>,
         << Fn(0, 0, 0, 1, "Void"), Fn(5, 0, 1, 2, "Void") >>)
   EXCEPT !.paramKinds = << "Uint8" >>, !.paramOffsets = << 0 >>,
          !.bssByteSize = 1]

(* Without the entry function's return the loop runs off the text. *)
NoReturnProgram == Image(<< Lit("Uint8", 1) >>, << Fn(0, 0, 0, 0, "Void") >>)

CallPrograms ==
  { CallProgram, Recursion(7), Recursion(1), TwiceProgram, NoReturnProgram }

-----------------------------------------------------------------------------
(* What the callee's parameters hold, in the order of their declaration,   *)
(* is what the caller had on top of its stack: a call moves the arguments  *)
(* into the frame, adds nothing, loses nothing and swaps nothing; every    *)
(* other byte of the new frame is zero and the frames below are as they    *)
(* were.  Of a descriptor whose parameters overlap, which the compiler     *)
(* never makes, the property says nothing.                                 *)
CallPassesArguments ==
  [][ mode = "script" /\ Len(callFrames') > Len(callFrames) =>
        LET p == program
            fn == p.functions[Instr.arg + 1]
            frame == memory'[Frame]
            argument(i) == ReadBytes(frame, frameTop + ParamOffset(p, fn, i),
                                     ParamSize(p, fn, i))
            unset == { b \in 1 .. fn.frameByteSize : Covering(p, fn, b) = {} }
        IN  (\A b \in 1 .. fn.frameByteSize : \A i, k \in Covering(p, fn, b) : i = k) =>
            /\ memory[Stack] =
                 memory'[Stack] \o FlattenSeq([i \in Params(fn) |-> argument(i)])
            /\ \A b \in unset : frame[frameTop + b] = 0
            /\ SubSeq(frame, 1, frameTop) = SubSeq(memory[Frame], 1, frameTop)
    ]_vars

(* A script sees calls and returns as ActivationStack promises: the frames *)
(* in use are the locals of its activations.                               *)
Activations ==
  IF mode = "idle" THEN << >>
  ELSE [i \in 1 .. Len(callFrames) |->
          [resume |-> callFrames[i].returnPC,
           locals |-> ReadBytes(memory[Frame], callFrames[i].localBase,
                                frameSizes[i])]]

Calls == INSTANCE ActivationStack WITH
           control <- IF mode = "idle" THEN 0 ELSE pc,
           activations <- Activations

CallsAreNested == Calls!StackSpec
=============================================================================
