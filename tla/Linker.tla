-------------------------------- MODULE Linker --------------------------------
(***************************************************************************)
(* From a parsed program to a linked one (cova/compile.go, cova/link.go):  *)
(* the global variables get their places (Layout) and initial values, the  *)
(* functions are registered, each body becomes a block of code, the walk   *)
(* of CallGraph marks the blocks to keep, the kept blocks are moved into   *)
(* one text, and the linker turns function ids into indices of a table of  *)
(* descriptors.                                                            *)
(*                                                                         *)
(* A code cell stands for one instruction with its operand, so an address  *)
(* counts cells.  What an instruction does is ScriptVM's; here only jumps  *)
(* and calls matter, whose operands are moved or replaced, the addresses   *)
(* of variables and literals, and the last byte of an instruction, from    *)
(* which the compiler tells a return.  The instructions that lead to a     *)
(* part of a variable are one cell with the address of the part.           *)
(***************************************************************************)
EXTENDS CallGraph, Layout, FiniteSetsExt

CONSTANTS
  Sources,           \* parsed programs
  BuiltInNames,      \* names of the built-in operations
  EntryName,         \* script_main
  FunctionCapacity,  \* extern functions that the host provides
  VariableCapacity,  \* bytes of extern memory that the host provides
  MaxUint32          \* the largest code address

(* What the parser hands over: lists, declarations of two kinds, and types  *)
(* that it knows.  The ids and lists of CallGraph are enough for the calls.  *)
IsList(list) == list \in Seq(Range(list))

IsSource(s) ==
  /\ IsList(s.structs) /\ IsList(s.decls) /\ IsList(s.functions)
  /\ \A struct \in Range(s.structs) :
       /\ IsList(struct.fields)
       /\ \A field \in Range(struct.fields) : field.type.counts \in Seq(Nat)
  /\ \A d \in Range(s.decls) :
       \/ /\ d.kind = "variable" /\ d.type.counts \in Seq(Nat)
          /\ d.initial # NoValue =>
               /\ d.initial.form \in {"text", "number"}
               /\ d.initial.number \in Int /\ IsList(d.initial.text)
       \/ d.kind = "function" /\ IsList(d.params)
  /\ \A f \in Range(s.functions) :
       /\ IsList(f.params) /\ IsList(f.locals) /\ IsList(f.body)
       /\ \A cell \in Range(f.body) :
            /\ cell.op = "text" => IsList(cell.text)
            /\ cell.op = "use" =>
                 /\ IsList(cell.steps)
                 /\ \A step \in Range(cell.steps) :
                      step \in {Member(step.field), Item(step.item)}
       /\ { p.type : p \in Range(f.params) } \cup Range(f.locals)
            \subseteq DOMAIN SizeOf \cup { struct.name : struct \in Range(s.structs) }

ASSUME SourcesAssumption == \A s \in Sources : IsSource(s)

ASSUME IdsAssumption ==
  /\ \A s \in Sources : 0 .. Len(s.decls) + Len(s.functions) \subseteq Ids
  /\ \A n \in UNION { 0 .. Len(f.body) + 1 :
                        f \in UNION { Range(s.functions) : s \in Sources } } :
       [1 .. n -> Ids] \subseteq CalleeLists

VARIABLES
  source,    \* the parsed program
  stage,     \* what the toolchain is doing, "failed" or "linked" at the end
  at,        \* the item of the stage that comes next
  symbols,   \* symbolBindings: name -> binding of a function or a variable
  blocks,    \* id -> compiledFunctionBlock
  program,   \* RelocatableProgram, as far as it is assembled
  linked,    \* LinkedProgram, as far as it is linked
  failure    \* the error that stopped the toolchain, or "none"

vars == << graphVars, layoutVars, source, stage, at, symbols, blocks, program,
           linked, failure >>

Failed(reason) == stage' = "failed" /\ failure' = reason

-----------------------------------------------------------------------------
(* Parameters, and the layout of a frame.                                  *)

(* Where each of these values goes in the frame, and where the next would. *)
FrameLayout(names) == Laid([i \in DOMAIN names |-> types[names[i]]])

ParamTypes(params) == [i \in DOMAIN params |-> params[i].type]
HasAggregate(params) == \E i \in DOMAIN params : IsAggregate(types[params[i].type])
NamesTwice(params) ==
  \E i, j \in DOMAIN params : i # j /\ params[i].name = params[j].name

-----------------------------------------------------------------------------
(* Registration.                                                           *)

Functions == { name \in DOMAIN symbols : symbols[name].scope # "variable" }
NextFuncID == Cardinality(Functions)
NameRefused(name) == name \in BuiltInNames \cup DOMAIN symbols
SignatureRefused(f) == IsAggregate(types[f.result]) \/ HasAggregate(f.params)

ReadStruct ==
  /\ stage = "structs"
  /\ at <= Len(source.structs)
  /\ \/ /\ DeclareStruct(source.structs[at])
        /\ at' = at + 1
        /\ UNCHANGED << stage, failure >>
     \/ /\ ~ StructAccepted(source.structs[at])
        /\ Failed("struct")
        /\ UNCHANGED << layoutVars, at >>
  /\ UNCHANGED << graphVars, source, symbols, blocks, program, linked >>

Variables == { d \in Range(source.decls) : d.kind = "variable" }
Externs == { d \in Range(source.decls) : d.kind = "function" }

ReadVariables ==
  /\ stage = "structs"
  /\ at > Len(source.structs)
  /\ \/ /\ \A d \in Variables : VariableAccepted(d)
        /\ stage' = "register"
        /\ UNCHANGED failure
     \/ /\ \E d \in Variables : ~ VariableAccepted(d)
        /\ Failed("variable")
  /\ at' = 1
  /\ UNCHANGED << graphVars, layoutVars, source, symbols, blocks, program, linked >>

Bind(name, binding) ==
  symbols' = [n \in DOMAIN symbols \cup {name} |->
                IF n = name THEN binding ELSE symbols[n]]

RegisterVariable(d) ==
  /\ ~ NameRefused(d.name)
  /\ PlaceVariable(d)
  /\ Bind(d.name, [scope |-> "variable", segment |-> SegmentOf(d)])

BindFunction(f, scope, slot) ==
  /\ ~ NameRefused(f.name)
  /\ ~ SignatureRefused(f)
  /\ Bind(f.name, [scope |-> scope, id |-> NextFuncID, slot |-> slot,
                   params |-> ParamTypes(f.params), result |-> f.result])

RegisterExtern(f) == BindFunction(f, "extern", f.slot) /\ UNCHANGED layoutVars
RegisterScriptFunction(f) == BindFunction(f, "script", 0)

DeclarationRefused(d) ==
  \/ NameRefused(d.name)
  \/ d.kind = "variable" /\ PlaceRefused(d)
  \/ d.kind = "function" /\ SignatureRefused(d)

RegisterDeclaration ==
  /\ stage = "register"
  /\ at <= Len(source.decls)
  /\ LET d == source.decls[at] IN
       \/ /\ IF d.kind = "variable" THEN RegisterVariable(d) ELSE RegisterExtern(d)
          /\ at' = at + 1
          /\ UNCHANGED << stage, failure >>
       \/ /\ DeclarationRefused(d)
          /\ Failed("declaration")
          /\ UNCHANGED << layoutVars, at, symbols >>
  /\ UNCHANGED << graphVars, source, blocks, program, linked >>

EndDeclarations ==
  /\ stage = "register"
  /\ at > Len(source.decls)
  /\ stage' = "initialize"
  /\ at' = 1
  /\ UNCHANGED << graphVars, layoutVars, source, symbols, blocks, program, linked,
                  failure >>

Initialized(d) == d.kind = "variable" /\ d.initial # NoValue

InitializeGlobal ==
  /\ stage = "initialize"
  /\ \/ /\ at <= Len(source.decls)
        /\ IF Initialized(source.decls[at]) THEN Initialize(source.decls[at])
           ELSE UNCHANGED layoutVars
        /\ at' = at + 1
        /\ UNCHANGED << stage, failure >>
     \/ /\ at <= Len(source.decls)
        /\ Initialized(source.decls[at])
        /\ ~ InitializerAccepted(source.decls[at])
        /\ Failed("initializer")
        /\ UNCHANGED << layoutVars, at >>
     \/ /\ at > Len(source.decls)
        /\ stage' = "functions"
        /\ at' = 1
        /\ UNCHANGED << layoutVars, failure >>
  /\ UNCHANGED << graphVars, source, symbols, blocks, program, linked >>

RegisterFunction ==
  /\ stage = "functions"
  /\ at <= Len(source.functions)
  /\ LET f == source.functions[at] IN
       \/ /\ RegisterScriptFunction(f)
          /\ at' = at + 1
          /\ UNCHANGED << stage, failure >>
       \/ /\ NameRefused(f.name) \/ SignatureRefused(f)
          /\ Failed("declaration")
          /\ UNCHANGED << at, symbols >>
  /\ UNCHANGED << graphVars, layoutVars, source, blocks, program, linked >>

FindEntry ==
  /\ stage = "functions"
  /\ at > Len(source.functions)
  /\ \/ /\ \E i \in DOMAIN source.functions : source.functions[i].name = EntryName
        /\ stage' = "compile"
        /\ UNCHANGED failure
     \/ /\ \A i \in DOMAIN source.functions : source.functions[i].name # EntryName
        /\ Failed("no entry")
  /\ at' = 1
  /\ UNCHANGED << graphVars, layoutVars, source, symbols, blocks, program, linked >>

-----------------------------------------------------------------------------
(* One function body becomes one block of code.                            *)

CallOfUnknown(call) == call.name \notin Functions

CallRefused(call) ==
  call.name \in Functions => call.args # Len(symbols[call.name].params)

CallCell(call) ==
  LET callee == symbols[call.name]
  IN  IF callee.scope = "extern"
      THEN [op |-> "callextern", operand |-> callee.slot]
      ELSE [op |-> "call", operand |-> callee.id]

(* The variable that a name means in a function with these parameters: a   *)
(* parameter hides a global.                                               *)
NoVariable == [PartOf("none", 0, types["Void"]) EXCEPT !.ok = FALSE]

Local(params, name) ==
  LET layout == FrameLayout(ParamTypes(params))
      i == CHOOSE i \in DOMAIN params : params[i].name = name
  IN  PartOf("frame", layout.offsets[i], types[params[i].type])
Global(name) ==
  LET place == PlaceOf(name)
  IN  PartOf(symbols[name].segment, place.offset, place.type)

Meant(params, name) ==
  CASE \E i \in DOMAIN params : params[i].name = name -> Local(params, name)
    [] OTHER -> IF name \in DOMAIN symbols \ Functions THEN Global(name) ELSE NoVariable

(* A use: the value of a part of a variable is loaded. *)
UsedPart(params, use) == PartThrough(Meant(params, use.name), use.steps)
UseRefused(params, use) ==
  ~ UsedPart(params, use).ok \/ IsAggregate(UsedPart(params, use).type)

BodyRefused(f) ==
  \E i \in DOMAIN f.body :
    \/ f.body[i].op = "call" /\ CallRefused(f.body[i])
    \/ f.body[i].op = "use" /\ UseRefused(f.params, f.body[i])

AddressCell(segment, offset) == [op |-> "address", operand |-> << segment, offset >>]

UseCell(params, use) ==
  LET part == UsedPart(params, use) IN AddressCell(part.segment, part.offset)

CodeCell(f, cell) ==
  CASE cell.op = "call" -> CallCell(cell)
    [] cell.op = "jump" -> [op |-> "jump", operand |-> cell.to]
    [] cell.op = "use" -> UseCell(f.params, cell)
    [] cell.op = "text" -> AddressCell("const", PoolWith(f.body).at[cell.text])
    [] OTHER -> [op |-> cell.op, operand |-> 0]

Return == [op |-> "ret", operand |-> 0]

(* The compiler takes the last byte of the code for an opcode.  It is the  *)
(* high byte of the last instruction, never the opcode: a return always    *)
(* follows, except after an instruction whose high byte equals OpRet.      *)
WithReturn(code) ==
  IF code # << >> /\ Last(code).op = "highbyteret" THEN code
  ELSE Append(code, Return)

(* Calls to script functions, to be patched, as they come. *)
Patching(code) ==
  LET upTo[i \in 0 .. Len(code)] ==
        IF i = 0 THEN << >>
        ELSE IF code[i].op # "call" THEN upTo[i - 1]
        ELSE Append(upTo[i - 1], [pos |-> i, id |-> code[i].operand])
  IN  upTo
PatchesOf(code) == Patching(code)[Len(code)]

BlockOf(f) ==
  LET code == WithReturn([i \in DOMAIN f.body |-> CodeCell(f, f.body[i])])
      layout == FrameLayout(ParamTypes(f.params) \o f.locals)
  IN  [binding |-> symbols[f.name],
       offsets |-> SubSeq(layout.offsets, 1, Len(f.params)),
       slots |-> Len(f.params) + Len(f.locals),
       frame |-> layout.size,
       code |-> code,
       patches |-> PatchesOf(code)]

FunctionRefused(f) ==
  \/ NamesTwice(f.params)
  \/ \E name \in Range(f.locals) : name = "Void" \/ IsAggregate(types[name])
  \/ BodyRefused(f)

CompileFunction ==
  /\ stage = "compile"
  /\ at <= Len(source.functions)
  /\ LET f == source.functions[at] IN
       \/ /\ ~ FunctionRefused(f)
          /\ LET block == BlockOf(f)
                 id == block.binding.id
             IN  /\ AddBlock(id, [k \in DOMAIN block.patches |-> block.patches[k].id])
                 /\ blocks' = [b \in DOMAIN blocks \cup {id} |->
                                 IF b = id THEN block ELSE blocks[b]]
          /\ Intern(f.body)
          /\ at' = at + 1
          /\ UNCHANGED << stage, failure >>
       \/ /\ FunctionRefused(f)
          /\ Failed("body")
          /\ UNCHANGED << graphVars, layoutVars, blocks, at >>
  /\ UNCHANGED << source, symbols, program, linked >>

-----------------------------------------------------------------------------
(* Which blocks stay: the walk of CallGraph, from the entry function.      *)

EntryFunction == symbols[EntryName].id

MarkFromEntry ==
  /\ stage = "compile"
  /\ at > Len(source.functions)
  /\ BeginWalk(EntryFunction)
  /\ stage' = "mark"
  /\ UNCHANGED << layoutVars, source, at, symbols, blocks, program, linked, failure >>

Mark ==
  /\ stage = "mark"
  /\ Walk
  /\ UNCHANGED << layoutVars, source, stage, at, symbols, blocks, program, linked,
                  failure >>

EndMark ==
  /\ stage = "mark"
  /\ \/ /\ verdict = "marked"
        /\ stage' = "assemble"
        /\ at' = 1
        /\ UNCHANGED failure
     \/ /\ verdict \in {"cycle", "unknown"}
        /\ Failed(verdict)
        /\ UNCHANGED at
  /\ UNCHANGED << graphVars, layoutVars, source, symbols, blocks, program, linked >>

-----------------------------------------------------------------------------
(* The kept blocks are moved into one text.                                *)

BlockIds == [i \in DOMAIN source.functions |-> symbols[source.functions[i].name].id]

KeptForACall(id) == \E b \in WithMark("visited") : id \in Callees(b)
KeptBlock(id) == marks[id] = "visited"

JumpTooFar(code, base) ==
  \E i \in DOMAIN code :
    code[i].op = "jump" /\ code[i].operand + base > MaxUint32

JumpsLeft(code, base) == code

JumpsMoved(code, base) ==
  [i \in DOMAIN code |->
     IF code[i].op = "jump" THEN [code[i] EXCEPT !.operand = @ + base]
     ELSE code[i]]

PatchesMoved(patches, base) ==
  [k \in DOMAIN patches |-> [patches[k] EXCEPT !.pos = @ + base]]

Larger(a, b) == IF a >= b THEN a ELSE b

Moved(block, base) ==
  [id |-> block.binding.id, params |-> block.binding.params,
   offsets |-> block.offsets, frame |-> block.frame,
   result |-> block.binding.result, address |-> base]

WithBlock(block) ==
  LET base == Len(program.text)
  IN  [text |-> program.text \o JumpsMoved(block.code, base),
       patches |-> program.patches \o PatchesMoved(block.patches, base),
       functions |-> Append(program.functions, Moved(block, base)),
       frameSize |-> Larger(program.frameSize, block.slots),
       frameBytes |-> Larger(program.frameBytes, block.frame)]

AssembleBlock ==
  /\ stage = "assemble"
  /\ at <= Len(BlockIds)
  /\ LET id == BlockIds[at]
         block == blocks[id]
         base == Len(program.text)
         tooLarge == base > MaxUint32 \/ JumpTooFar(block.code, base)
     IN  \/ /\ ~ KeptBlock(id)
            /\ at' = at + 1
            /\ UNCHANGED << stage, program, failure >>
         \/ /\ KeptBlock(id)
            /\ ~ tooLarge
            /\ program' = WithBlock(block)
            /\ at' = at + 1
            /\ UNCHANGED << stage, failure >>
         \/ /\ KeptBlock(id)
            /\ tooLarge
            /\ Failed("too large")
            /\ UNCHANGED << at, program >>
  /\ UNCHANGED << graphVars, layoutVars, source, symbols, blocks, linked >>

EndAssembly ==
  /\ stage = "assemble"
  /\ at > Len(BlockIds)
  /\ stage' = "variables"
  /\ at' = 1
  /\ UNCHANGED << graphVars, layoutVars, source, symbols, blocks, program, linked,
                  failure >>
-----------------------------------------------------------------------------
(* The linker: descriptors and parameter tables, then the calls, then the  *)
(* entry point.                                                            *)

LinkVariable ==
  /\ stage = "variables"
  /\ at <= Len(places.extern)
  /\ LET place == places.extern[at]
         outside == place.offset + place.type.size > VariableCapacity
         misaligned == place.offset % place.type.alignment # 0
     IN  \/ /\ ~ outside /\ ~ misaligned
            /\ at' = at + 1
            /\ UNCHANGED << stage, failure >>
         \/ /\ outside
            /\ Failed("extern range")
            /\ UNCHANGED at
         \/ /\ misaligned /\ ~ outside
            /\ Failed("extern alignment")
            /\ UNCHANGED at
  /\ UNCHANGED << graphVars, layoutVars, source, symbols, blocks, program, linked >>

EndVariables ==
  /\ stage = "variables"
  /\ at > Len(places.extern)
  /\ stage' = "externs"
  /\ at' = 1
  /\ UNCHANGED << graphVars, layoutVars, source, symbols, blocks, program, linked,
                  failure >>

LinkExterns ==
  /\ stage = "externs"
  /\ \/ /\ \A f \in Externs : symbols[f.name].slot < FunctionCapacity
        /\ stage' = "tables"
        /\ UNCHANGED failure
     \/ /\ \E f \in Externs : symbols[f.name].slot >= FunctionCapacity
        /\ Failed("extern slot")
  /\ at' = 1
  /\ UNCHANGED << graphVars, layoutVars, source, symbols, blocks, program, linked >>

ParamStartByFunction == Len(linked.functions)
ParamStart == Len(linked.paramKinds)

WithDescriptor(f) ==
  [linked EXCEPT
     !.functions = Append(@, [body |-> f.address, paramStart |-> ParamStart,
                              paramCount |-> Len(f.params), frame |-> f.frame,
                              result |-> f.result]),
     !.paramKinds = @ \o f.params,
     !.paramOffsets = @ \o f.offsets,
     !.index = [id \in DOMAIN @ \cup {f.id} |->
                  IF id = f.id THEN Len(linked.functions) ELSE @[id]]]

VoidAllowed(f) == FALSE
TakesVoid(f) == "Void" \in Range(f.params)

LinkFunction ==
  /\ stage = "tables"
  /\ at <= Len(program.functions)
  /\ LET f == program.functions[at]
         inconsistent == Len(f.params) # Len(f.offsets)
     IN  \/ /\ ~ TakesVoid(f) /\ ~ inconsistent
            /\ linked' = WithDescriptor(f)
            /\ at' = at + 1
            /\ UNCHANGED << stage, failure >>
         \/ /\ inconsistent
            /\ Failed("metadata")
            /\ UNCHANGED << at, linked >>
         \/ /\ TakesVoid(f) /\ ~ inconsistent
            /\ Failed("parameter kind")
            /\ UNCHANGED << at, linked >>
  /\ UNCHANGED << graphVars, layoutVars, source, symbols, blocks, program >>

EndTables ==
  /\ stage = "tables"
  /\ at > Len(program.functions)
  /\ stage' = "calls"
  /\ at' = 1
  /\ linked' = [linked EXCEPT !.text = program.text]
  /\ UNCHANGED << graphVars, layoutVars, source, symbols, blocks, program, failure >>

PatchCall ==
  /\ stage = "calls"
  /\ at <= Len(program.patches)
  /\ LET patch == program.patches[at] IN
       \/ /\ patch.id \in DOMAIN linked.index
          /\ linked' = [linked EXCEPT
                          !.text[patch.pos].operand = linked.index[patch.id]]
          /\ at' = at + 1
          /\ UNCHANGED << stage, failure >>
       \/ /\ patch.id \notin DOMAIN linked.index
          /\ Failed("unresolved")
          /\ UNCHANGED << at, linked >>
  /\ UNCHANGED << graphVars, layoutVars, source, symbols, blocks, program >>

EndLink ==
  /\ stage = "calls"
  /\ at > Len(program.patches)
  /\ \/ /\ EntryFunction \in DOMAIN linked.index
        /\ linked' = [linked EXCEPT !.entryPoint = linked.index[EntryFunction],
                                    !.frameSize = program.frameSize,
                                    !.frameByteSize = program.frameBytes,
                                    !.const = images.const, !.data = images.data,
                                    !.dataSize = sizes.data, !.bssSize = sizes.bss]
        /\ stage' = "linked"
        /\ UNCHANGED failure
     \/ /\ EntryFunction \notin DOMAIN linked.index
        /\ Failed("entry not finalized")
        /\ UNCHANGED linked
  /\ UNCHANGED << graphVars, layoutVars, source, at, symbols, blocks, program >>

-----------------------------------------------------------------------------
Init ==
  /\ GraphInit
  /\ LayoutInit
  /\ source \in Sources
  /\ stage = "structs" /\ at = 1
  /\ symbols = << >>
  /\ blocks = << >>
  /\ program = [text |-> << >>, patches |-> << >>, functions |-> << >>,
                frameSize |-> 0, frameBytes |-> 0]
  /\ linked = [text |-> << >>, entryPoint |-> 0, functions |-> << >>,
               paramKinds |-> << >>, paramOffsets |-> << >>, frameSize |-> 0,
               frameByteSize |-> 0, index |-> << >>, const |-> << >>, data |-> << >>,
               dataSize |-> 0, bssSize |-> 0]
  /\ failure = "none"

Next ==
  \/ ReadStruct \/ ReadVariables
  \/ RegisterDeclaration \/ EndDeclarations \/ InitializeGlobal
  \/ RegisterFunction \/ FindEntry
  \/ CompileFunction \/ MarkFromEntry \/ Mark \/ EndMark
  \/ AssembleBlock \/ EndAssembly
  \/ LinkVariable \/ EndVariables
  \/ LinkExterns \/ LinkFunction \/ EndTables \/ PatchCall \/ EndLink

Spec == Init /\ [][Next]_vars
FairSpec == Spec /\ WF_vars(Next)
-----------------------------------------------------------------------------
(* What the source program says, read without the compiler's tables.       *)

Names == { source.functions[i].name : i \in DOMAIN source.functions }
Written(name) ==
  CHOOSE f \in Range(source.functions) : f.name = name
Host(name) == CHOOSE f \in Externs : f.name = name

CalledBy(name) ==
  LET body == Written(name).body
  IN  { body[i].name : i \in { k \in DOMAIN body : body[k].op = "call" } }

(* The script functions that a run can get to. *)
Needed ==
  { name \in Names :
      \A set \in SUBSET Names :
        ( /\ EntryName \in set
          /\ \A n \in set : CalledBy(n) \cap Names \subseteq set ) => name \in set }

(* The text at this place of the const image. *)
Reads(image, offset, text) ==
  /\ offset + Len(text) < Len(image)
  /\ SubSeq(image, offset + 1, offset + Len(text) + 1) = text \o << 0 >>

(* What a use names, found by going through all scalars there are. *)
Used(params, use) ==
  IF \E i \in DOMAIN params : params[i].name = use.name
  THEN LET i == CHOOSE i \in DOMAIN params : params[i].name = use.name
       IN  << "frame", FrameLayout(ParamTypes(params)).offsets[i] >>
  ELSE LET way == CHOOSE way \in UNION { ScalarsIn(segment) : segment \in Segments } :
                    way.path = << use.name >> \o use.steps
       IN  << way.part.segment, way.part.offset >>

(* A cell of the text goes on, jumps or calls as the source says there,    *)
(* when the function starts at this address and each function has this     *)
(* descriptor.                                                             *)
LeadsAsWritten(cell, written, params, start, descriptorOf) ==
  CASE written.op = "jump" ->
         cell.op = "jump" /\ cell.operand = written.to + start
    [] written.op = "call" /\ written.name \in Names ->
         cell.op = "call" /\ cell.operand + 1 = descriptorOf[written.name]
    [] written.op = "call" /\ written.name \notin Names ->
         cell.op = "callextern" /\ cell.operand = Host(written.name).slot
    [] written.op \in {"text", "use"} -> cell.op = "address"
    [] OTHER -> cell.op = written.op

(* And it means the variables and literals that the source names there, as *)
(* far as 32 bits count the bytes of the const segment, and as types are   *)
(* nested.                                                                 *)
DoesAsWritten(cell, written, params, start, descriptorOf) ==
  /\ LeadsAsWritten(cell, written, params, start, descriptorOf)
  /\ written.op = "text" =>
       /\ cell.operand[1] = "const"
       /\ Roomy("const") /\ Len(linked.const) <= MaxOffset =>
            Reads(linked.const, cell.operand[2], written.text)
  /\ written.op = "use" /\ Len(written.steps) <= MaxDepth =>
       cell.operand = Used(params, written)

(* Each function that a run can get to has one descriptor, and there is no *)
(* other; the code at its body address is the function as written, cell by *)
(* cell; the entry point is that of script_main.                           *)
LinkedWith(IsAsWritten(_, _, _, _, _)) ==
  \E descriptorOf \in Bijection(Needed, DOMAIN linked.functions) :
    /\ descriptorOf[EntryName] = linked.entryPoint + 1
    /\ \A name \in Needed :
         LET start == linked.functions[descriptorOf[name]].body
             body == Written(name).body
         IN  /\ start + Len(body) <= Len(linked.text)
             /\ \A i \in DOMAIN body :
                  IsAsWritten(linked.text[start + i], body[i], Written(name).params,
                              start, descriptorOf)

(* What is linked is the source: jumps stay inside their function, calls   *)
(* go through the descriptors of the functions named there, addresses are  *)
(* those of the variables and literals named there.                        *)
LinkedAsWritten == stage = "linked" => LinkedWith(DoesAsWritten)

(* The part of it that decides where a run goes. *)
ControlAsWritten == stage = "linked" => LinkedWith(LeadsAsWritten)

(* A function's slices of the two parameter tables are its own: they hold  *)
(* the kinds of its parameters, at aligned places of its frame that do not *)
(* overlap, and no frame is larger than the program says its largest is.   *)
ParamTablesMatch ==
  stage = "linked" =>
    \A name \in Needed : \E d \in Range(linked.functions) :
      LET written == ParamTypes(Written(name).params)
          kinds == SubSeq(linked.paramKinds, d.paramStart + 1,
                          d.paramStart + d.paramCount)
          offsets == SubSeq(linked.paramOffsets, d.paramStart + 1,
                            d.paramStart + d.paramCount)
      IN  /\ d.paramStart + d.paramCount <= Len(linked.paramKinds)
          /\ Len(linked.paramOffsets) = Len(linked.paramKinds)
          /\ kinds = written
          /\ d.result = Written(name).result
          /\ \A i \in DOMAIN written :
               /\ offsets[i] % types[written[i]].alignment = 0
               /\ offsets[i] + types[written[i]].size <=
                    IF i = Len(written) THEN d.frame ELSE offsets[i + 1]
          /\ d.frame <= linked.frameByteSize

(* LANGUAGE.md 251: every body is compiled and validated, the ones that    *)
(* are dropped too.  In a program that links, each call names a function   *)
(* and passes as many arguments as it is declared with.                    *)
BodiesValidated ==
  stage = "linked" =>
    \A name \in Names : \A called \in CalledBy(name) :
      /\ called \in Names \/ \E f \in Externs : f.name = called
      /\ \A i \in DOMAIN Written(name).body :
           LET cell == Written(name).body[i]
           IN  cell.op = "call" /\ cell.name = called =>
                 cell.args = Len((IF called \in Names THEN Written(called)
                                  ELSE Host(called)).params)

(* The checks of one stage that repeat what an earlier one ensured never   *)
(* refuse a program: no id is unknown to the walk, no patch unresolved, no *)
(* entry point missing, no parameter table out of step, no extern variable *)
(* misaligned.                                                             *)
LaterChecksPass ==
  failure \notin {"unknown", "unresolved", "entry not finalized", "metadata",
                  "extern alignment"}

(* The number that bytes stand for, the lowest first: as far as byte i. *)
Number(bytes) ==
  LET upTo[i \in 0 .. Len(bytes)] ==
        IF i = 0 THEN 0 ELSE upTo[i - 1] + bytes[i] * Powers(Len(bytes))[i - 1]
  IN  upTo

(* At its place, an initialized global has the value written for it; the   *)
(* address of a literal leads to its characters and a zero.                *)
HoldsValue(image, place, initial) ==
  LET size == place.type.size
      bits == Number(SubSeq(image, place.offset + 1, place.offset + size))[size]
  IN  IF initial.form = "text"
      THEN /\ bits \div AddressSpace = ConstSegment
           /\ Reads(linked.const, bits % AddressSpace, initial.text)
      ELSE bits = (IF place.type.name # "Bool" THEN initial.number
                   ELSE IF initial.number = 0 THEN 0 ELSE 1) % Powers(size)[size]

IsZero(image, place) ==
  \A i \in 1 .. place.type.size : image[place.offset + i] = 0

(* The constants, with the literals after them, are no more than an        *)
(* address can tell apart.                                                 *)
Addressable == Roomy("const") /\ Len(linked.const) <= AddressSpace

(* LANGUAGE.md 187, 195, 368: in the images that a program carries, each   *)
(* initialized global has the value written for it, and constants without  *)
(* a value are zero - as long as 32 bits count the globals, and addresses  *)
(* the constants and literals.                                             *)
InitialValuesHold ==
  stage = "linked" =>
    \A variable \in Variables :
      LET place == PlaceOf(variable.name)
          segment == SegmentOf(variable)
      IN  segment \in {"data", "const"} /\ Roomy(segment) =>
            IF variable.initial = NoValue THEN IsZero(linked[segment], place)
            ELSE \/ variable.initial.form = "text" /\ ~ Addressable
                 \/ HoldsValue(linked[segment], place, variable.initial)

(* Every program is refused or linked in the end. *)
LinkingEnds == <>(stage \in {"failed", "linked"})

(* LANGUAGE.md 251: each function body is an independent block.  The code  *)
(* of each function ends in a return: none runs on into the next.          *)
FunctionsReturn ==
  stage = "linked" =>
    \A last \in { d.body : d \in Range(linked.functions) } \cup {Len(linked.text)} :
      last > 0 => linked.text[last].op = "ret"
=============================================================================
