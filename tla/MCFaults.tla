------------------------------- MODULE MCFaults -------------------------------
(***************************************************************************)
(* Programs that go through every error exit of the interpreter loop and   *)
(* of the loader, the arithmetic, comparisons and jumps around them, and   *)
(* the math built-ins.                                                     *)
(***************************************************************************)
EXTENDS MCScriptVM

One == Lit("Uint8", 1)
Zero == Lit("Uint8", 0)
Word(value) == Lit("Int32", value)
Pointer(segment, index) == Word(MakeAddress(segment, index))

(* Instruction sequences that fail, or nearly do, inside one function. *)
OperandFaults ==
  { << One, Zero, Calc("Uint8", "Div") >>,
    << Word(7), Word(65534), Calc("Int32", "Modulo"), Test("Int32", "Less") >>,
    << One, Calc("Uint8", "Add") >>,
    << One, One, Calc("Uint8", "None") >>,
    << One, Calc("Address", "Add") >>,
    << Word(32767), Word(2), Calc("Int32", "Mul"), Cast("Int32", "Bool"),
       One, Test("Bool", "Equal") >>,
    << One, One, Test("Bool", "Less") >>,
    << One, Test("None", "Equal") >>,
    << One, Zero, Test("Uint8", "GreaterEqual"), Cast("Bool", "Address") >>,
    << One, Cast("Void", "Int32") >>,
    << One, Cast("Uint8", "Void") >>,
    << Cast("Uint8", "Int32") >>,
    << Lit("Address", 1) >>,
    << Lit("Void", 1) >>,
    << Word(1), Word(2), Word(3) >> }

MemoryFaults ==
  { << At(BSS, AddressIndexMask + 1) >>,
    << Pointer(BSS, 0), Word(65535), Op("Offset") >>,
    << Word(0), Op("Offset") >>,
    << Pointer(Frame, 0), One, Zero, Zero, Zero, Op("Offset"), Load("Uint8") >>,
    << One, Pointer(Frame, 0), Word(1), Op("Offset"), Store("Uint8") >>,
    << Load("None") >>,
    << One, Load("Uint8") >>,
    << At(0, 0), Load("Uint8") >>,
    << At(BSS, 0), Load("Void") >>,
    << At(BSS, 1), Load("Uint8") >>,
    << At(Extern, 0), Load("Int32") >>,
    << One, Word(MakeAddress(Stack, 0)), Load("Uint8") >>,
    << Store("None") >>,
    << One, Store("Uint8") >>,
    << Word(9), At(Const, 0), Store("Int32") >>,
    << One, At(9, 0), Store("Uint8") >>,
    << One, At(BSS, 0), Store("Void") >>,
    << One, At(Frame, 2), Store("Uint8") >>,
    << At(Frame, 0), Store("Uint8") >>,
    << One, Zero, At(Stack, 0), Store("Uint8") >>,
    << One, Zero, At(Stack, 1), Store("Uint8") >> }

ControlFaults ==
  { << To("JumpIfFalse", 0) >>,
    << Zero, To("JumpIfFalse", 9) >>,
    << One, To("JumpIfFalse", 9), To("Jump", 3) >>,
    << To("Jump", 9) >>,
    << To("Call", 5) >>,
    << To("CallExtern", 0), One >>,
    << Op("Unknown") >>,
    << Op("Truncated") >> }

FaultPrograms ==
  { Main(text) : text \in OperandFaults \cup MemoryFaults \cup ControlFaults }

(* Descriptors that do not fit their program. *)
Callee(fn, kinds, offsets) ==
  [Image(<< One, Word(2), To("Call", 1), Return, Return >>,
         << Fn(0, 0, 0, 1, "Void"), fn >>)
   EXCEPT !.paramKinds = kinds, !.paramOffsets = offsets]

DescriptorFaults ==
  { Callee(Fn(5, 0, 0, 0, "Void"), << >>, << >>),
    Callee(Fn(4, 0, 1, 1, "Void"), << >>, << 0 >>),
    Callee(Fn(4, 0, 1, 1, "Void"), << "Uint8" >>, << >>),
    Callee(Fn(4, 0, 1, 1, "Void"), << "Void" >>, << 0 >>),
    Callee(Fn(4, 0, 1, 2, "Void"), << "Int32" >>, << 0 >>),
    Callee(Fn(4, 1, 1, 2, "Void"), << "Int32", "Uint8" >>, << 0, 2 >>),
    Callee(Fn(4, 0, 2, 12, "Void"), << "Int32", "Int32" >>, << 0, 4 >>),
    Callee(Fn(4, 0, 2, 4, "Void"), << "Uint8", "Int32" >>, << 1, 0 >>),
    Callee(Fn(4, 0, 0, 13, "Void"), << >>, << >>),
    [Image(<< Return >>, << Fn(0, 0, 0, 0, "Int32") >>) EXCEPT !.bssByteSize = 3],
    Image(<< Return >>, << >>),
    Image(<< Return >>, << Fn(0, 0, 1, 0, "Void") >>),
    Image(<< >>, << Fn(0, 0, 0, 0, "Void") >>) }

(* Images whose declared sizes are not those of their data. *)
LoadFaults ==
  { [Main(<< >>) EXCEPT !.constByteSize = 1],
    [Main(<< >>) EXCEPT !.dataByteSize = 1, !.bssByteSize = 2],
    [Main(<< Lit("Uint8", 3), At(Data, 1), Store("Uint8"),
             Lit("Uint8", 3), At(BSS, 0), Store("Uint8") >>)
     EXCEPT !.constByteSize = 2, !.constData = << 4, 2 >>,
            !.dataByteSize = 2, !.dataData = << 5, 6 >>, !.bssByteSize = 1] }

(* Built-ins with good operands, missing ones, wrong kinds and values that *)
(* the operation refuses.                                                  *)
Byte1(value) == Lit("Uint8", value)
Timer1(id, op, kind) == << Byte1(id), Math(kind, op) >>
Keep == << At(BSS, 0), Store("Uint8") >>
InBSS(text) == [Main(text) EXCEPT !.bssByteSize = 1]

MathPrograms ==
  { InBSS(Timer1(2, "TimerDone", "Bool")),
    InBSS(Timer1(1, "TimerStop", "Bool")),
    InBSS(<< Byte1(1), Math("Void", "TimerStart") >>),
    InBSS(<< Lit("Int32", 1), Math("Void", "TimerStart") >>),
    InBSS(<< Math("Void", "TimerReset") >>),
    InBSS(<< Math("Bool", "TickTime") >>),
    InBSS(<< Math("Int32", "Random"), Math("Int32", "Abs") >>),
    InBSS(<< Math("Uint8", "Random") >>),
    InBSS(<< Math("Uint8", "Abs") >>),
    InBSS(<< Math("None", "Abs") >>),
    InBSS(<< Byte1(1), Math("Bool", "Abs") >>),
    InBSS(<< Byte1(1), Byte1(2), Math("Uint8", "Min") >> \o Keep),
    InBSS(<< Byte1(1), Byte1(0), Byte1(3), Math("Uint8", "Clamp") >>),
    InBSS(<< Byte1(1), Byte1(3), Byte1(2), Math("Uint8", "Clamp") >>),
    InBSS([i \in 1 .. 5 |-> Byte1(i)] \o << Math("Uint8", "Map") >>),
    InBSS([i \in 1 .. 5 |-> Byte1(0)] \o << Math("Uint8", "Map") >>),
    InBSS(<< Byte1(1), Byte1(2), Byte1(1), Byte1(1), Math("Uint8", "Lerp") >>),
    InBSS(<< Byte1(1), Byte1(2), Byte1(1), Byte1(15), Math("Uint8", "Lerp") >>),
    InBSS(<< Byte1(1), Math("Uint8", "Lerp") >>),
    InBSS(<< Math("Uint8", "Lerp") >>),
    InBSS(<< Byte1(1), Math("None", "Lerp") >>),
    InBSS(<< Math("Uint8", "Bogus") >>) }

AllFaults ==
  FaultPrograms \cup DescriptorFaults \cup LoadFaults \cup MathPrograms

InterpreterPrograms == CallPrograms \cup AllFaults
=============================================================================
