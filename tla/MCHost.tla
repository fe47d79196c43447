-------------------------------- MODULE MCHost --------------------------------
(***************************************************************************)
(* Programs that call the host, for a host that pushes, pops, allocates    *)
(* and writes extern memory, registers its dispatcher late, and loads or   *)
(* resets the VM while a script waits for its dispatcher.                  *)
(***************************************************************************)
EXTENDS MCScriptVM

(* Copies extern memory to a global around a call to the host. *)
ExternProgram ==
  [Main(<< At(Extern, 0), Load("Int32"), To("CallExtern", 0),
           At(BSS, 0), Store("Int32") >>)
   EXCEPT !.bssByteSize = 4]

(* Fails after a call to the host. *)
DividesProgram ==
  Main(<< To("CallExtern", 0), Lit("Uint8", 1), Lit("Uint8", 0),
          Calc("Uint8", "Div") >>)

(* Calls the host two frames deep, and comes back through two returns. *)
Nested(size) ==
  [Image(<< Lit("Uint8", 1), To("Call", 1), Return,
            To("CallExtern", 0), At(Frame, 0), Load("Uint8"),
            At(Data, 0), Store("Uint8"), Return >>,
         << Fn(0, 0, 0, 1, "Void"), Fn(3, 0, 1, size, "Void") >>)
   EXCEPT !.paramKinds = << "Uint8" >>, !.paramOffsets = << 1 >>,
          !.dataByteSize = 1, !.dataData = << 6 >>]

(* Its entry function cannot be entered. *)
NoEntryProgram == Image(<< Return >>, << Fn(0, 0, 0, 99, "Void") >>)

HostPrograms ==
  { ExternProgram, DividesProgram, Nested(2), Nested(3),
    NoEntryProgram }
=============================================================================
