----------------------------- MODULE MCToolchain -----------------------------
(***************************************************************************)
(* Small programs: script_main between two other functions, with bodies of *)
(* up to two cells that jump and that call one another, an extern          *)
(* function, a missing one, with too few and too many arguments; programs  *)
(* with few and with many parameters; programs with up to three global     *)
(* variables in any order.                                                 *)
(***************************************************************************)
EXTENDS ProgramImage

Plain == [op |-> "plain"]
JumpTo(to) == [op |-> "jump", to |-> to]
Call(name, args) == [op |-> "call", name |-> name, args |-> args]
HighByteRet == [op |-> "highbyteret"]

Word(name) == [name |-> name, type |-> "Int32"]
ByteSized(name) == [name |-> name, type |-> "Uint8"]
Odd(name, type) == [name |-> name, type |-> type]

Extern(name, slot, params) ==
  [kind |-> "function", name |-> name, slot |-> slot, params |-> params,
   result |-> "Void"]
Function(name, result, params, locals, body) ==
  [name |-> name, result |-> result, params |-> params, locals |-> locals,
   body |-> body]
Type(name) == [name |-> name, counts |-> << >>]
Many(name, counts) == [name |-> name, counts |-> counts]
Field(name, type) == [name |-> name, type |-> type]

Pair == [name |-> "Pair",
         fields |-> << Field("word", Type("Int32")), Field("tag", Type("Uint8")) >>]
Nest == [name |-> "Nest",
         fields |-> << Field("tag", Type("Bool")), Field("pairs", Many("Pair", << 2 >>)),
                       Field("wide", Type("Int64")), Field("end", Type("Uint8")) >>]

Program(externs, functions) ==
  [structs |-> << Pair >>, decls |-> externs, functions |-> functions]

HostLog == Extern("log", 1, << Word("value") >>)

Bodies ==
  { << >>, << Plain >>, << JumpTo(0) >>, << JumpTo(1), Plain >>, << Plain, JumpTo(2) >>,
    << Call("g", 2) >>, << Call("f", 1), Call("g", 2) >>, << Call("f", 1), JumpTo(0) >>,
    << Plain, Call("log", 1) >> }
MainBodies == Bodies \cup { << Call("f", 2) >>, << Call("script_main", 0) >> }

(* The calls between three functions, in source order f, script_main, g.   *)
CallingPrograms ==
  { Program(<< HostLog >>,
      << Function("f", "Int32", << ByteSized("a") >>, << "Int32" >>, f),
         Function("script_main", "Void", << >>, << "Uint8" >>, main),
         Function("g", "Void", << ByteSized("a"), Word("b") >>, << >>, g) >>) :
      f \in Bodies, main \in MainBodies, g \in Bodies }

Main(body) == Function("script_main", "Void", << >>, << >>, body)
Other(params, body) == Function("f", "Void", params, << >>, body)

(* Programs that one of the other checks refuses. *)
RefusedPrograms ==
  { Program(<< >>, << Other(<< >>, << >>) >>),
    Program(<< >>, << Main(<< >>), Main(<< >>) >>),
    Program(<< HostLog >>, << Main(<< >>), Function("log", "Void", << >>, << >>, << >>) >>),
    Program(<< >>, << Main(<< >>), Function("math::abs", "Void", << >>, << >>, << >>) >>),
    Program(<< >>, << Main(<< >>), Function("f", "Pair", << >>, << >>, << >>) >>),
    Program(<< >>, << Main(<< >>), Other(<< Odd("a", "Pair") >>, << >>) >>),
    Program(<< >>, << Main(<< >>), Other(<< Word("a"), ByteSized("a") >>, << >>) >>),
    Program(<< >>, << Function("script_main", "Void", << >>, << "Pair" >>, << >>) >>),
    Program(<< >>, << Function("script_main", "Void", << >>, << "Void" >>, << >>) >>),
    Program(<< >>, << Main(<< Call("f", 1) >>), Other(<< Odd("a", "Void") >>, << >>) >>),
    Program(<< >>, << Main(<< Call("nowhere", 0) >>) >>),
    Program(<< Extern("log", 2, << >>) >>, << Main(<< >>) >>),
    Program(<< Extern("f", 0, << Odd("a", "Pair") >>) >>, << Main(<< >>) >>) }

(* A function that ends in a call of math::acos and one after it. *)
OpenEndedPrograms ==
  { Program(<< >>, << Main(main), Other(<< >>, f) >>) :
      main \in {<< Call("f", 0) >>, << Call("f", 0), HighByteRet >>},
      f \in {<< >>, << Plain >>, << HighByteRet >>, << JumpTo(1), HighByteRet >>,
             << Plain, HighByteRet, Plain >>, << Plain, Plain, HighByteRet >>} }

-----------------------------------------------------------------------------
ParamLists ==
  { << >>, << Word("a") >>, << Odd("a", "Void") >>,
    << ByteSized("a"), Word("b") >> }

(* script_main has the locals that decide how many slots the largest frame *)
(* has; it calls f or both f and g.                                        *)
ProgramsWith(locals) ==
  { Program(<< >>,
      << Function("f", "Void", f, << >>, << Plain >>),
         Function("script_main", "Void", << >>, locals, main),
         Function("g", "Void", g, << "Uint8" >>, << >>) >>) :
      f \in ParamLists, g \in ParamLists,
      main \in { << Call("f", n) >> : n \in 0 .. 2 }
        \cup { << Call("g", k), Call("f", n) >> : k \in 0 .. 2, n \in 0 .. 2 } }

RoomyPrograms == ProgramsWith(<< "Int32", "Uint8", "Int32", "Int32" >>)
TightPrograms == ProgramsWith(<< "Int32" >>)
-----------------------------------------------------------------------------
(* Global variables.                                                       *)

Variable(name, type) ==
  [kind |-> "variable", name |-> name, type |-> type, extern |-> FALSE,
   const |-> FALSE, initial |-> NoValue]
HostVariable(name, type) == [Variable(name, type) EXCEPT !.extern = TRUE]
Constant(variable) == [variable EXCEPT !.const = TRUE]
Set(variable, number) ==
  [variable EXCEPT !.initial = [form |-> "number", number |-> number, text |-> << >>]]
Say(variable, text) ==
  [variable EXCEPT !.initial = [form |-> "text", number |-> 0, text |-> text]]

Hi == << 5, 6 >>
Ho == << 7 >>
Use(name, steps) == [op |-> "use", name |-> name, steps |-> steps]
Text(text) == [op |-> "text", text |-> text]

Fine ==
  { HostVariable("e", Type("Uint8")), Variable("b", Type("Uint8")),
    Set(Variable("d", Type("Bool")), 9), Say(Variable("s", Type("Text")), Hi),
    Set(Constant(Variable("c", Type("Uint8"))), 7),
    Say(Constant(Variable("t", Type("Text"))), Hi) }
Coarse ==
  { HostVariable("es", Many("Pair", << 2 >>)), Variable("n", Many("Nest", << 2 >>)),
    Variable("m", Many("Int32", << 2, 3 >>)), Set(Variable("w", Type("Int64")), -2),
    Say(Constant(Variable("u", Type("Text"))), Ho), Constant(Variable("k", Type("Pair"))),
    Set(Variable("p", Type("Pointer")), 0) }

Lists ==
  { list \in BoundedSeq(Fine, 3) \cup BoundedSeq(Fine \cup Coarse, 2) : IsInjective(list) }
    \cup { << one, two, three >> : one, three \in Fine, two \in Coarse }

WithGlobals(decls, functions) ==
  [structs |-> << Pair, Nest >>, decls |-> decls, functions |-> functions]

(* The body says texts of its own, and so does a function that is dropped. *)
Talking ==
  << Function("f", "Void", << >>, << >>, << Text(Ho) >>),
     Main(<< Text(Hi), Text(Ho), Text(Hi) >>) >>

SomeGlobals ==
  << HostVariable("e", Type("Uint8")), Set(Variable("d", Type("Bool")), 9), HostLog,
     Variable("b", Type("Uint8")), Variable("n", Many("Nest", << 2 >>)),
     Variable("m", Many("Int32", << 2, 3 >>)) >>

Way(name, steps) == [name |-> name, steps |-> steps]
Ways ==
  { Way("e", << >>), Way("d", << >>), Way("b", << >>),
    Way("n", << Item(1), Member("pairs"), Item(1), Member("tag") >>),
    Way("n", << Item(0), Member("wide") >>), Way("m", << Item(2), Item(1) >>),
    Way("m", << Item(1), Item(2) >>), Way("m", << Item(3), Item(0) >>),
    Way("m", << Item(0) >>), Way("n", << Item(0), Member("none") >>),
    Way("b", << Item(0) >>), Way("n", << Member("tag") >>), Way("log", << >>),
    Way("nowhere", << >>) }

UsingPrograms ==
  { WithGlobals(SomeGlobals,
      << Function("f", "Void", << Word("a"), ByteSized("b") >>, << >>,
                  << Use(way.name, way.steps), Use("a", << >>) >>),
         Main(<< Call("f", 2), Use(way.name, way.steps) >>) >>) : way \in Ways }

(* A block of as many bytes as an address can tell apart.                  *)
Block == [name |-> "Block", fields |-> << Field("words", Many("Int64", << 64 >>)) >>]
Names8 == << "one", "two", "three", "four", "five", "six", "seven", "eight" >>
Large(Kind(_)) == [i \in DOMAIN Names8 |-> Kind(Names8[i])]
LargePrograms ==
  { [structs |-> << Block >>, decls |-> decls, functions |-> << Main(<< Text(Ho) >>) >>] :
      decls \in
        { Append(Large(LAMBDA name : Variable(name, Type("Block"))),
                 Variable("b", Type("Uint8"))),
          Large(LAMBDA name : HostVariable(name, Type("Block"))),
          Append(Large(LAMBDA name : Constant(Variable(name, Type("Block")))),
                 Set(Constant(Variable("c", Type("Uint8"))), 7)),
          << Constant(Variable("one", Type("Block"))), Say(Variable("s", Type("Text")), Hi) >> } }

Declaring(structs, decls) ==
  [structs |-> structs, decls |-> decls, functions |-> << Main(<< >>) >>]
RefusedGlobals ==
  { Declaring(<< >>, << d >>) : d \in
      { Variable("x", Type("Pair")), Variable("x", Type("Void")),
        HostVariable("x", Many("Void", << 1 >>)), Constant(HostVariable("x", Type("Bool"))),
        Variable("x", Many("Bool", << 0 >>)), Variable("x", Many("Bool", << 64, 9 >>)),
        Variable("math::abs", Type("Bool")), Set(Variable("x", Many("Bool", << 2 >>)), 1),
        Set(Variable("x", Type("Text")), 1), Say(Variable("x", Type("Int32")), Hi),
        Say(Variable("x", Type("Pointer")), Hi), Variable("script_main", Type("Bool")),
        HostVariable("x", Many("Int64", << 4 >>)) } }
  \cup { Declaring(<< >>, << HostVariable("x", Type("Void")), Variable("x", Type("Bool")) >>) }
  \cup { Declaring(<< Pair, struct >>, << >>) : struct \in
      { Pair, [name |-> "Bool", fields |-> Pair.fields], [name |-> "S", fields |-> << >>],
        [name |-> "S", fields |-> Pair.fields \o Pair.fields],
        [name |-> "S", fields |-> << Field("v", Type("Void")) >>],
        [name |-> "S", fields |-> << Field("v", Type("T")) >>],
        [name |-> "S", fields |-> << Field("a", Many("Bool", << 511 >>)),
                                     Field("b", Type("Int32")) >>] } }

GlobalPrograms ==
  { WithGlobals(list, Talking) : list \in Lists }
    \cup UsingPrograms \cup LargePrograms \cup RefusedGlobals

AllPrograms ==
  CallingPrograms \cup RefusedPrograms \cup RoomyPrograms \cup GlobalPrograms

(* Lists of the ids that the calls of a body may name. *)
CallLists == BoundedSeq(Ids, 4)
=============================================================================
