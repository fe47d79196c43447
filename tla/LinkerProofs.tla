----------------------------- MODULE LinkerProofs -----------------------------
(***************************************************************************)
(* What holds of the toolchain for every program.                          *)
(*                                                                         *)
(* The invariant Inv says, part by part, what each stage leaves behind:    *)
(* whose names the symbols are and that no two functions share an id; that *)
(* sizes and alignments fit together; that each block is its function's,   *)
(* with a patch for each of its calls; that what is kept and described is  *)
(* what the walk has visited.  So the checks that come later repeat what   *)
(* is known (NoIdleRefusal), each body was validated (CallsAreValidated)   *)
(* and the parameter tables are the functions' own (SlicesAreOwn).         *)
(* CodeInv adds where the cells of the blocks lie in the text, and which   *)
(* of its calls are patched: the linked text does what the source says     *)
(* (ControlIsLinked).                                                      *)
(***************************************************************************)
EXTENDS Linker, CallGraphProofs, FiniteSetTheorems

-----------------------------------------------------------------------------
(* How far each loop of the toolchain has come.                            *)

Stages == {"structs", "register", "initialize", "functions", "compile", "mark",
           "assemble", "variables", "externs", "tables", "calls", "linked",
           "failed"}

StructsRead == IF stage = "structs" THEN at - 1 ELSE Len(source.structs)
DeclsRead ==
  IF stage = "structs" THEN 0
  ELSE IF stage = "register" THEN at - 1 ELSE Len(source.decls)
FunctionsRead ==
  IF stage \in {"structs", "register", "initialize"} THEN 0
  ELSE IF stage = "functions" THEN at - 1 ELSE Len(source.functions)

BeforeCompile == {"structs", "register", "initialize", "functions"}
BeforeAssemble == BeforeCompile \cup {"compile", "mark"}
BeforeTables == BeforeAssemble \cup {"assemble", "variables", "externs"}

Compiled ==
  IF stage \in BeforeCompile THEN 0
  ELSE IF stage = "compile" THEN at - 1 ELSE Len(source.functions)
Assembled ==
  IF stage \in BeforeAssemble THEN 0
  ELSE IF stage = "assemble" THEN at - 1 ELSE Len(source.functions)
Described ==
  IF stage \in BeforeTables THEN 0
  ELSE IF stage = "tables" THEN at - 1 ELSE Len(program.functions)

Idle == {"unknown", "unresolved", "entry not finalized", "metadata",
         "extern alignment"}

StageInv ==
  /\ source \in Sources
  /\ stage \in Stages
  /\ at \in Nat \ {0}
  /\ StructsRead \in 0 .. Len(source.structs)
  /\ DeclsRead \in 0 .. Len(source.decls)
  /\ FunctionsRead \in 0 .. Len(source.functions)
  /\ Compiled \in 0 .. Len(source.functions)
  /\ Assembled \in 0 .. Len(source.functions)
  /\ stage # "failed" => failure = "none"

-----------------------------------------------------------------------------
(* The symbols are those read so far, each once; functions have ids of     *)
(* their own.                                                              *)

Decl(i) == source.decls[i]
Fun(i) == source.functions[i]
IdOf(i) == symbols[Fun(i).name].id

NamesInv ==
  /\ DOMAIN symbols = { Decl(i).name : i \in 1 .. DeclsRead }
                      \cup { Fun(i).name : i \in 1 .. FunctionsRead }
  /\ \A i, j \in 1 .. DeclsRead : Decl(i).name = Decl(j).name => i = j
  /\ \A i, j \in 1 .. FunctionsRead : Fun(i).name = Fun(j).name => i = j

BindingsInv ==
  /\ \A i \in 1 .. DeclsRead :
       LET d == Decl(i)
           binding == symbols[d.name]
       IN  /\ d.kind = "variable" => binding.scope = "variable"
           /\ d.kind = "function" => /\ binding.scope = "extern"
                                     /\ binding.slot = d.slot
                                     /\ binding.params = ParamTypes(d.params)
  /\ \A i \in 1 .. FunctionsRead :
       LET f == Fun(i)
           binding == symbols[f.name]
       IN  /\ binding.scope = "script"
           /\ binding.params = ParamTypes(f.params)
           /\ binding.result = f.result

IdsInv ==
  /\ IsFiniteSet(Functions)
  /\ Cardinality(Functions) <= DeclsRead + FunctionsRead
  /\ \A n \in Functions : symbols[n].id \in 0 .. Cardinality(Functions) - 1
  /\ \A m, n \in Functions : symbols[m].id = symbols[n].id => m = n

SymbolsInv == stage # "failed" => NamesInv /\ BindingsInv /\ IdsInv

-----------------------------------------------------------------------------
(* Types, and the places of extern variables.                              *)

IsDescriptor(type) == type.size \in Nat /\ type.alignment \in {1, 4, 8}

TypesInv ==
  /\ DOMAIN types = DOMAIN SizeOf
                    \cup { source.structs[i].name : i \in 1 .. StructsRead }
  /\ \A name \in DOMAIN types : IsDescriptor(types[name])

PlacesInv ==
  /\ DOMAIN places = Segments /\ DOMAIN sizes = Segments \ {"const"}
  /\ sizes["extern"] \in Nat
  /\ IsList(places["extern"])
  /\ \A i \in 1 .. Len(places["extern"]) :
       LET place == places["extern"][i] IN place.offset % place.type.alignment = 0

LayoutInv ==
  stage # "failed" =>
  /\ TypesInv
  /\ stage # "structs" => \A d \in Variables : VariableAccepted(d)
  /\ PlacesInv

-----------------------------------------------------------------------------
(* Each block is its function's.                                           *)

PatchesAreCalls(code, patches) ==
  /\ \A k \in 1 .. Len(patches) :
       /\ DOMAIN patches[k] = {"pos", "id"}
       /\ patches[k].pos \in 1 .. Len(code)
       /\ code[patches[k].pos].op = "call"
       /\ code[patches[k].pos].operand = patches[k].id
  /\ \A i \in 1 .. Len(code) :
       code[i].op = "call" => \E k \in 1 .. Len(patches) : patches[k].pos = i

ControlCell(f, k, cell) ==
  LET written == f.body[k]
  IN  /\ written.op = "call" => cell = CallCell(written)
      /\ written.op # "call" => cell.op # "call"
      /\ written.op = "jump" => cell = [op |-> "jump", operand |-> written.to]
      /\ written.op \in {"text", "use"} => cell.op = "address"
      /\ written.op \notin {"call", "jump", "text", "use"} => cell.op = written.op

BlockIsOf(i) ==
  LET f == Fun(i)
      block == blocks[IdOf(i)]
      layout == FrameLayout(ParamTypes(f.params) \o f.locals)
  IN  /\ block.binding = symbols[f.name]
      /\ block.offsets = SubSeq(layout.offsets, 1, Len(f.params))
      /\ block.frame = layout.size
      /\ IsList(block.code) /\ IsList(block.patches)
      /\ Len(f.body) <= Len(block.code)
      /\ \A k \in 1 .. Len(f.body) : ControlCell(f, k, block.code[k])
      /\ \A k \in Len(f.body) + 1 .. Len(block.code) :
           block.code[k].op \notin {"call", "jump"}
      /\ PatchesAreCalls(block.code, block.patches)
      /\ calls[IdOf(i)] = [k \in 1 .. Len(block.patches) |-> block.patches[k].id]
      /\ \A k \in 1 .. Len(f.body) : f.body[k].op = "call" => ~ CallRefused(f.body[k])

BlocksInv ==
  stage # "failed" =>
  /\ Blocks = { IdOf(i) : i \in 1 .. Compiled }
  /\ DOMAIN blocks = Blocks
  /\ \A i \in 1 .. Compiled : BlockIsOf(i)

(* The walk starts from script_main, once all is compiled. *)
WalkInv ==
  stage # "failed" =>
  /\ stage \in BeforeCompile \cup {"compile"} => verdict = "idle"
  /\ stage \notin BeforeCompile =>
       \E i \in 1 .. Len(source.functions) : Fun(i).name = EntryName
  /\ stage = "mark" => verdict \in {"walking", "marked", "cycle"}
  /\ stage \notin BeforeAssemble => verdict = "marked"
  /\ stage \notin BeforeCompile \cup {"compile"} => entry = EntryFunction

-----------------------------------------------------------------------------
(* The kept functions, and only they, are in the text; the calls to patch  *)
(* lead to kept functions.                                                 *)
AssembledUpTo(n, text) ==
  /\ IsList(text.functions) /\ IsList(text.patches)
  /\ text.frameBytes \in Nat
  /\ \A k \in 1 .. Len(text.functions) :
       /\ \E i \in 1 .. n :
            /\ IdOf(i) \in Visited
            /\ text.functions[k] = Moved(blocks[IdOf(i)], text.functions[k].address)
       /\ text.functions[k].frame <= text.frameBytes
  /\ \A i \in 1 .. n :
       IdOf(i) \in Visited =>
         \E k \in 1 .. Len(text.functions) : text.functions[k].id = IdOf(i)
  /\ \A k \in 1 .. Len(text.patches) : text.patches[k].id \in Visited

AssemblyInv ==
  stage # "failed" =>
  /\ AssembledUpTo(Assembled, program)
  /\ stage \in BeforeAssemble => program.patches = << >>

(* The descriptors are those of the functions in the text, and each has    *)
(* its own slices of the tables.                                           *)
DescribesFunction(k, f, tables) ==
  LET d == tables.functions[k]
  IN  /\ d.frame = f.frame /\ d.result = f.result
      /\ d.paramCount = Len(f.params) /\ d.paramStart \in Nat
      /\ d.paramStart + d.paramCount <= Len(tables.paramKinds)
      /\ \A m \in 1 .. Len(f.params) :
           /\ tables.paramKinds[d.paramStart + m] = f.params[m]
           /\ tables.paramOffsets[d.paramStart + m] = f.offsets[m]

DescribedUpTo(n, tables) ==
  /\ DOMAIN tables = {"text", "entryPoint", "functions", "paramKinds", "paramOffsets",
                      "frameSize", "frameByteSize", "index", "const", "data",
                      "dataSize", "bssSize"}
  /\ IsList(tables.functions) /\ IsList(tables.paramKinds) /\ IsList(tables.paramOffsets)
  /\ Len(tables.functions) = n
  /\ Len(tables.paramOffsets) = Len(tables.paramKinds)
  /\ \A k \in 1 .. n : DescribesFunction(k, program.functions[k], tables)
  /\ DOMAIN tables.index = { program.functions[k].id : k \in 1 .. n }

TablesInv ==
  stage # "failed" =>
  /\ Described \in 0 .. Len(program.functions)
  /\ DescribedUpTo(Described, linked)
  /\ stage = "linked" => linked.frameByteSize = program.frameBytes

Inv ==
  /\ stage # "failed" => GraphInv
  /\ StageInv
  /\ SymbolsInv
  /\ LayoutInv
  /\ BlocksInv
  /\ WalkInv
  /\ AssemblyInv
  /\ TablesInv
  /\ failure \notin Idle

-----------------------------------------------------------------------------
(* The stages follow each other, and no loop runs past its end.            *)

LEMMA Lists ==
  ASSUME NEW list, IsList(list)
  PROVE  /\ Len(list) \in Nat
         /\ DOMAIN list = 1 .. Len(list)
         /\ \A i \in 1 .. Len(list) : list[i] \in Range(list)
<1>1. list \in Seq(Range(list))
  BY DEF IsList
<1>2. Len(list) \in Nat /\ DOMAIN list = 1 .. Len(list)
  BY <1>1, LenProperties
<1>3. QED
  BY <1>2 DEF Range

LEMMA SourceLists ==
  ASSUME source \in Sources
  PROVE  /\ IsSource(source)
         /\ Len(source.structs) \in Nat
         /\ Len(source.decls) \in Nat
         /\ Len(source.functions) \in Nat
         /\ DOMAIN source.decls = 1 .. Len(source.decls)
         /\ DOMAIN source.functions = 1 .. Len(source.functions)
<1>1. IsSource(source)
  BY SourcesAssumption
<1>2. IsList(source.structs) /\ IsList(source.decls) /\ IsList(source.functions)
  BY <1>1 DEF IsSource
<1>3. QED
  BY <1>1, <1>2, Lists

(* Where the toolchain goes from here: on in a loop, to the next stage, or *)
(* nowhere because it fails.                                               *)
Goes(from, to) == stage = from /\ stage' = to /\ at' = 1
Counts(from) == stage = from /\ stage' = from /\ at' = at + 1
Fails == stage # "failed" /\ stage' = "failed" /\ at' \in {1, at}

Advances ==
  \/ Fails
  \/ /\ failure' = failure
     /\ \/ Counts("structs") /\ at <= Len(source.structs)
        \/ Goes("structs", "register") /\ at > Len(source.structs)
        \/ Counts("register") /\ at <= Len(source.decls)
        \/ Goes("register", "initialize") /\ at > Len(source.decls)
        \/ Counts("initialize")
        \/ Goes("initialize", "functions")
        \/ Counts("functions") /\ at <= Len(source.functions)
        \/ Goes("functions", "compile") /\ at > Len(source.functions)
        \/ Counts("compile") /\ at <= Len(source.functions)
        \/ /\ stage = "compile" /\ at > Len(source.functions)
           /\ stage' = "mark" /\ at' = at
        \/ Goes("mark", "assemble")
        \/ Counts("assemble") /\ at <= Len(source.functions)
        \/ Goes("assemble", "variables") /\ at > Len(source.functions)
        \/ Counts("variables")
        \/ Goes("variables", "externs")
        \/ Goes("externs", "tables")
        \/ Counts("tables") /\ at <= Len(program.functions)
        \/ Goes("tables", "calls") /\ at > Len(program.functions)
        \/ Counts("calls")
        \/ stage = "calls" /\ stage' = "linked" /\ at' = at
        \/ stage' = stage /\ at' = at

LEMMA NextAdvances ==
  ASSUME source \in Sources, [Next]_vars
  PROVE  source' = source /\ Advances
<1> USE DEF Advances, Goes, Counts, Fails, Failed
<1>1. Len(BlockIds) = Len(source.functions)
  BY SourceLists DEF BlockIds
<1>2. CASE ReadStruct
  BY <1>2 DEF ReadStruct
<1>3. CASE ReadVariables
  BY <1>3 DEF ReadVariables
<1>4. CASE RegisterDeclaration
  BY <1>4 DEF RegisterDeclaration
<1>5. CASE EndDeclarations
  BY <1>5 DEF EndDeclarations
<1>6. CASE InitializeGlobal
  BY <1>6 DEF InitializeGlobal
<1>7. CASE RegisterFunction
  BY <1>7 DEF RegisterFunction
<1>8. CASE FindEntry
  BY <1>8 DEF FindEntry
<1>9. CASE CompileFunction
  BY <1>9 DEF CompileFunction
<1>10. CASE MarkFromEntry
  BY <1>10 DEF MarkFromEntry
<1>11. CASE Mark
  BY <1>11 DEF Mark
<1>12. CASE EndMark
  BY <1>12 DEF EndMark
<1>13. CASE AssembleBlock
  BY <1>1, <1>13 DEF AssembleBlock
<1>14. CASE EndAssembly
  BY <1>1, <1>14 DEF EndAssembly
<1>15. CASE LinkVariable
  BY <1>15 DEF LinkVariable
<1>16. CASE EndVariables
  BY <1>16 DEF EndVariables
<1>17. CASE LinkExterns
  BY <1>17 DEF LinkExterns
<1>18. CASE LinkFunction
  BY <1>18 DEF LinkFunction
<1>19. CASE EndTables
  BY <1>19 DEF EndTables
<1>20. CASE PatchCall
  BY <1>20 DEF PatchCall
<1>21. CASE EndLink
  BY <1>21 DEF EndLink
<1>22. CASE UNCHANGED vars
  BY <1>22 DEF vars
<1>23. QED
  BY <1>2, <1>3, <1>4, <1>5, <1>6, <1>7, <1>8, <1>9, <1>10,
     <1>11, <1>12, <1>13, <1>14, <1>15, <1>16, <1>17, <1>18, <1>19, <1>20, <1>21, <1>22
     DEF Next

LEMMA StageStep ==
  ASSUME StageInv, [Next]_vars
  PROVE  StageInv'
<1>1. /\ Len(source.structs) \in Nat
      /\ Len(source.decls) \in Nat
      /\ Len(source.functions) \in Nat
  BY SourceLists DEF StageInv
<1>2. source' = source /\ Advances
  BY NextAdvances DEF StageInv
<1>3. QED
  BY <1>1, <1>2
     DEF StageInv, Stages, StructsRead, DeclsRead, FunctionsRead, Compiled,
         Assembled, BeforeCompile, BeforeAssemble, Advances, Goes, Counts, Fails

-----------------------------------------------------------------------------
(* Declarations are bound one by one, to ids and names that are new.       *)

LEMMA SymbolsStay ==
  ASSUME StageInv, [Next]_vars, ~ RegisterDeclaration, ~ RegisterFunction
  PROVE  symbols' = symbols /\ ~ Counts("register") /\ ~ Counts("functions")
<1> USE DEF Counts
<1>1. CASE ReadStruct \/ ReadVariables
  BY <1>1 DEF ReadStruct, ReadVariables
<1>2. CASE EndDeclarations
  BY <1>2 DEF EndDeclarations
<1>3. CASE InitializeGlobal
  BY <1>3 DEF InitializeGlobal
<1>4. CASE FindEntry
  BY <1>4 DEF FindEntry, Failed
<1>12. CASE MarkFromEntry \/ Mark
  BY <1>12 DEF MarkFromEntry, Mark
<1>13. CASE EndMark
  BY <1>13 DEF EndMark
<1>5. CASE CompileFunction
  BY <1>5 DEF CompileFunction
<1>6. CASE AssembleBlock \/ EndAssembly
  BY <1>6 DEF AssembleBlock, EndAssembly
<1>7. CASE LinkVariable \/ EndVariables \/ LinkExterns
  BY <1>7 DEF LinkVariable, EndVariables, LinkExterns
<1>8. CASE LinkFunction \/ EndTables
  BY <1>8 DEF LinkFunction, EndTables
<1>9. CASE PatchCall \/ EndLink
  BY <1>9 DEF PatchCall, EndLink
<1>10. CASE UNCHANGED vars
  BY <1>10 DEF vars, StageInv
<1>11. QED
  BY <1>1, <1>2, <1>3, <1>4, <1>5, <1>6, <1>7, <1>8, <1>9, <1>10, <1>12, <1>13 DEF Next

LEMMA BindAdds ==
  ASSUME NEW name, NEW binding, name \notin DOMAIN symbols, Bind(name, binding)
  PROVE  /\ DOMAIN symbols' = DOMAIN symbols \cup {name}
         /\ symbols'[name] = binding
         /\ \A n \in DOMAIN symbols : symbols'[n] = symbols[n]
BY DEF Bind

LEMMA BindKeepsIds ==
  ASSUME IdsInv, StageInv, NEW name, NEW binding, name \notin DOMAIN symbols,
         Bind(name, binding), binding.scope = "variable",
         DeclsRead' + FunctionsRead' \in Nat,
         DeclsRead + FunctionsRead <= DeclsRead' + FunctionsRead'
  PROVE  IdsInv'
<1>1. Functions' = Functions /\ \A n \in Functions : symbols'[n] = symbols[n]
  <2>1. /\ DOMAIN symbols' = DOMAIN symbols \cup {name}
        /\ symbols'[name] = binding
        /\ \A n \in DOMAIN symbols : symbols'[n] = symbols[n]
    BY BindAdds
  <2>2. QED
    BY <2>1 DEF Functions
<1>2. Cardinality(Functions) \in Nat
  BY FS_CardinalityType DEF IdsInv
<1>3. /\ DeclsRead \in Nat /\ FunctionsRead \in Nat
  BY SourceLists DEF StageInv
<1>4. IsFiniteSet(Functions') /\ Cardinality(Functions') <= DeclsRead' + FunctionsRead'
  BY <1>1, <1>2, <1>3 DEF IdsInv
<1>5. \A n \in Functions' : symbols'[n].id \in 0 .. Cardinality(Functions') - 1
  BY <1>1 DEF IdsInv
<1>6. \A m, n \in Functions' : symbols'[m].id = symbols'[n].id => m = n
  BY <1>1 DEF IdsInv
<1>7. QED
  BY <1>4, <1>5, <1>6 DEF IdsInv

LEMMA BindAddsId ==
  ASSUME IdsInv, StageInv, NEW name, NEW binding, name \notin DOMAIN symbols,
         Bind(name, binding), binding.scope # "variable",
         binding.id = NextFuncID,
         DeclsRead' + FunctionsRead' \in Nat,
         DeclsRead + FunctionsRead < DeclsRead' + FunctionsRead'
  PROVE  IdsInv'
<1>1. /\ Functions' = Functions \cup {name} /\ name \notin Functions
      /\ symbols'[name] = binding
      /\ \A n \in Functions : symbols'[n] = symbols[n]
  <2>1. /\ DOMAIN symbols' = DOMAIN symbols \cup {name}
        /\ symbols'[name] = binding
        /\ \A n \in DOMAIN symbols : symbols'[n] = symbols[n]
    BY BindAdds
  <2>2. QED
    BY <2>1 DEF Functions
<1>2. Cardinality(Functions) \in Nat
  BY FS_CardinalityType DEF IdsInv
<1>3. IsFiniteSet(Functions') /\ Cardinality(Functions') = Cardinality(Functions) + 1
  BY <1>1, FS_AddElement DEF IdsInv
<1>4. /\ DeclsRead \in Nat /\ FunctionsRead \in Nat
  BY SourceLists DEF StageInv
<1>5. Cardinality(Functions') <= DeclsRead' + FunctionsRead'
  BY <1>2, <1>3, <1>4 DEF IdsInv
<1>6. /\ symbols'[name].id = Cardinality(Functions)
      /\ \A n \in Functions :
           /\ symbols'[n].id \in 0 .. Cardinality(Functions) - 1
           /\ symbols'[n].id = symbols[n].id
  BY <1>1 DEF IdsInv, NextFuncID
<1>7. \A n \in Functions' : symbols'[n].id \in 0 .. Cardinality(Functions') - 1
  BY <1>1, <1>2, <1>3, <1>6
<1>8. \A m, n \in Functions' : symbols'[m].id = symbols'[n].id => m = n
  BY <1>1, <1>2, <1>6 DEF IdsInv
<1>9. QED
  BY <1>3, <1>5, <1>7, <1>8 DEF IdsInv

(* One more name, which no entry before it has. *)
LEMMA NameAdded ==
  ASSUME NEW list, NEW n \in Nat \ {0}, NEW known,
         \A i \in 1 .. n - 1 : list[i].name \in known,
         list[n].name \notin known,
         \A i, j \in 1 .. n - 1 : list[i].name = list[j].name => i = j
  PROVE  /\ { list[i].name : i \in 1 .. n }
               = { list[i].name : i \in 1 .. n - 1 } \cup {list[n].name}
         /\ \A i, j \in 1 .. n : list[i].name = list[j].name => i = j
<1>1. 1 .. n = (1 .. n - 1) \cup {n}
  OBVIOUS
<1>2. \A i, j \in 1 .. n : list[i].name = list[j].name => i = j
  BY <1>1
<1>3. { list[i].name : i \in 1 .. n }
        = { list[i].name : i \in 1 .. n - 1 } \cup {list[n].name}
  BY <1>1
<1>4. QED
  BY <1>2, <1>3

LEMMA DeclarationStep ==
  ASSUME StageInv, SymbolsInv, RegisterDeclaration, stage' # "failed"
  PROVE  NamesInv' /\ BindingsInv' /\ IdsInv'
<1> DEFINE d == source.decls[at]
<1>1. /\ stage = "register" /\ stage' = "register" /\ at' = at + 1
      /\ at \in 1 .. Len(source.decls) /\ source' = source
      /\ IF d.kind = "variable" THEN RegisterVariable(d) ELSE RegisterExtern(d)
  BY SourceLists DEF RegisterDeclaration, Failed, StageInv
<1>2. /\ DeclsRead = at - 1 /\ FunctionsRead = 0 /\ DeclsRead' = at
      /\ FunctionsRead' = 0 /\ at \in Nat
  BY <1>1 DEF DeclsRead, FunctionsRead, StageInv
<1>3. d.kind \in {"variable", "function"}
  <2>1. d \in Range(source.decls)
    BY <1>1, SourceLists DEF StageInv, Range
  <2>2. QED
    BY <2>1, SourceLists DEF StageInv, IsSource
<1>4. NamesInv /\ BindingsInv /\ IdsInv
  BY <1>1 DEF SymbolsInv
<1> DEFINE binding ==
             IF d.kind = "variable"
             THEN [scope |-> "variable", segment |-> SegmentOf(d)]
             ELSE [scope |-> "extern", id |-> NextFuncID, slot |-> d.slot,
                   params |-> ParamTypes(d.params), result |-> d.result]
<1>5. d.name \notin DOMAIN symbols /\ Bind(d.name, binding)
  BY <1>1 DEF RegisterVariable, RegisterExtern, BindFunction, NameRefused
<1>6. /\ DOMAIN symbols' = DOMAIN symbols \cup {d.name}
      /\ symbols'[d.name] = binding
      /\ \A n \in DOMAIN symbols : symbols'[n] = symbols[n]
  <2> HIDE DEF d, binding
  <2>1. QED
    BY <1>5, BindAdds
<1>7. IdsInv'
  <2>1. CASE d.kind = "variable"
    BY <1>2, <1>4, <1>5, <2>1, BindKeepsIds
  <2>2. CASE d.kind # "variable"
    BY <1>2, <1>4, <1>5, <2>2, BindAddsId
  <2>3. QED
    BY <2>1, <2>2
<1>8. \A i \in 1 .. at - 1 : Decl(i).name \in DOMAIN symbols
  BY <1>2, <1>4 DEF NamesInv
<1>9. NamesInv'
  <2> DEFINE list == source.decls
             known == DOMAIN symbols
  <2>1. /\ \A i \in 1 .. at - 1 : list[i].name \in known
        /\ list[at].name \notin known
        /\ \A i, j \in 1 .. at - 1 : list[i].name = list[j].name => i = j
        /\ at \in Nat \ {0}
    <3>1. \A i \in 1 .. at - 1 : list[i].name \in known
      BY <1>8 DEF Decl
    <3>2. list[at].name \notin known
      BY <1>5
    <3>3. \A i, j \in 1 .. at - 1 : list[i].name = list[j].name => i = j
      BY <1>2, <1>4 DEF NamesInv, Decl
    <3>4. at \in Nat \ {0}
      BY <1>1
    <3>5. QED
      BY <3>1, <3>2, <3>3, <3>4
  <2>2. known = { list[i].name : i \in 1 .. at - 1 }
    BY <1>2, <1>4 DEF NamesInv, Decl
  <2>3. DOMAIN symbols' = known \cup {list[at].name}
    BY <1>6
  <2> HIDE DEF list, known
  <2>4. /\ { list[i].name : i \in 1 .. at }
             = { list[i].name : i \in 1 .. at - 1 } \cup {list[at].name}
        /\ \A i, j \in 1 .. at : list[i].name = list[j].name => i = j
    BY <2>1, NameAdded
  <2>5. DOMAIN symbols' = { list[i].name : i \in 1 .. at }
    BY <2>2, <2>3, <2>4
  <2>6. source'.decls = list
    BY <1>1 DEF list
  <2>7. QED
    BY <1>2, <2>4, <2>5, <2>6 DEF NamesInv, Decl, Fun
<1>10. BindingsInv'
  <2>1. ASSUME NEW i \in 1 .. at
        PROVE  LET b == symbols'[Decl(i).name]
               IN  /\ Decl(i).kind = "variable" => b.scope = "variable"
                   /\ Decl(i).kind = "function" =>
                        /\ b.scope = "extern" /\ b.slot = Decl(i).slot
                        /\ b.params = ParamTypes(Decl(i).params)
    <3>1. CASE i = at
      BY <1>6, <3>1 DEF Decl
    <3>2. CASE i # at
      BY <1>2, <1>4, <1>6, <1>8, <3>2 DEF BindingsInv
    <3>3. QED
      BY <3>1, <3>2
  <2>2. QED
    BY <1>1, <1>2, <2>1 DEF BindingsInv, Decl, Fun
<1>11. QED
  BY <1>7, <1>9, <1>10

LEMMA FunctionStep ==
  ASSUME StageInv, SymbolsInv, RegisterFunction, stage' # "failed"
  PROVE  NamesInv' /\ BindingsInv' /\ IdsInv'
<1> DEFINE f == source.functions[at]
<1>1. /\ stage = "functions" /\ stage' = "functions" /\ at' = at + 1
      /\ at \in 1 .. Len(source.functions) /\ source' = source
      /\ RegisterScriptFunction(f)
  BY SourceLists DEF RegisterFunction, Failed, StageInv
<1>2. /\ DeclsRead = Len(source.decls) /\ DeclsRead' = Len(source.decls)
      /\ FunctionsRead = at - 1 /\ FunctionsRead' = at
      /\ at \in Nat /\ Len(source.decls) \in Nat
  BY <1>1, SourceLists DEF DeclsRead, FunctionsRead, StageInv
<1>3. NamesInv /\ BindingsInv /\ IdsInv
  BY <1>1 DEF SymbolsInv
<1> DEFINE binding == [scope |-> "script", id |-> NextFuncID, slot |-> 0,
                       params |-> ParamTypes(f.params), result |-> f.result]
<1>4. f.name \notin DOMAIN symbols /\ Bind(f.name, binding)
  BY <1>1 DEF RegisterScriptFunction, BindFunction, NameRefused
<1>5. /\ DOMAIN symbols' = DOMAIN symbols \cup {f.name}
      /\ symbols'[f.name] = binding
      /\ \A n \in DOMAIN symbols : symbols'[n] = symbols[n]
  <2> HIDE DEF f, binding
  <2>1. QED
    BY <1>4, BindAdds
<1>6. IdsInv'
  BY <1>2, <1>3, <1>4, BindAddsId
<1>7. /\ \A i \in 1 .. at - 1 : Fun(i).name \in DOMAIN symbols
      /\ \A i \in 1 .. Len(source.decls) : Decl(i).name \in DOMAIN symbols
  BY <1>2, <1>3 DEF NamesInv
<1>8. NamesInv'
  <2> DEFINE list == source.functions
             known == DOMAIN symbols
             before == { source.decls[i].name : i \in 1 .. Len(source.decls) }
  <2>1. /\ \A i \in 1 .. at - 1 : list[i].name \in known
        /\ list[at].name \notin known
        /\ \A i, j \in 1 .. at - 1 : list[i].name = list[j].name => i = j
        /\ at \in Nat \ {0}
    <3>1. \A i \in 1 .. at - 1 : list[i].name \in known
      BY <1>7 DEF Fun
    <3>2. list[at].name \notin known
      BY <1>4
    <3>3. \A i, j \in 1 .. at - 1 : list[i].name = list[j].name => i = j
      BY <1>2, <1>3 DEF NamesInv, Fun
    <3>4. at \in Nat \ {0}
      BY <1>1
    <3>5. QED
      BY <3>1, <3>2, <3>3, <3>4
  <2>2. known = before \cup { list[i].name : i \in 1 .. at - 1 }
    BY <1>2, <1>3 DEF NamesInv, Decl, Fun
  <2>3. DOMAIN symbols' = known \cup {list[at].name}
    BY <1>5
  <2>4. source' = source
    BY <1>1
  <2>5. \A i, j \in 1 .. Len(source.decls) : Decl(i).name = Decl(j).name => i = j
    BY <1>2, <1>3 DEF NamesInv
  <2>6. before' = before /\ source'.functions = list
    BY <2>4
  <2> HIDE DEF list, known, before
  <2>7. /\ { list[i].name : i \in 1 .. at }
             = { list[i].name : i \in 1 .. at - 1 } \cup {list[at].name}
        /\ \A i, j \in 1 .. at : list[i].name = list[j].name => i = j
    BY <2>1, NameAdded
  <2>8. DOMAIN symbols' = before \cup { list[i].name : i \in 1 .. at }
    BY <2>2, <2>3, <2>7
  <2>9. DOMAIN symbols' = { Decl(i)'.name : i \in 1 .. DeclsRead' }
                          \cup { Fun(i)'.name : i \in 1 .. FunctionsRead' }
    <3>1. { Decl(i)'.name : i \in 1 .. DeclsRead' } = before
      BY <1>2, <2>4 DEF Decl, before
    <3>2. { Fun(i)'.name : i \in 1 .. FunctionsRead' } = { list[i].name : i \in 1 .. at }
      BY <1>2, <2>6 DEF Fun
    <3>3. QED
      BY <2>8, <3>1, <3>2
  <2>10. \A i, j \in 1 .. DeclsRead' : Decl(i)'.name = Decl(j)'.name => i = j
    BY <1>2, <2>4, <2>5 DEF Decl
  <2>11. \A i, j \in 1 .. FunctionsRead' : Fun(i)'.name = Fun(j)'.name => i = j
    BY <1>2, <2>6, <2>7 DEF Fun
  <2>12. QED
    BY <2>9, <2>10, <2>11 DEF NamesInv
<1>9. \A i \in 1 .. Len(source.decls) :
        symbols'[Decl(i).name] = symbols[Decl(i).name]
  BY <1>5, <1>7
<1>10. ASSUME NEW i \in 1 .. at
       PROVE  LET b == symbols'[Fun(i).name]
              IN  /\ b.scope = "script"
                  /\ b.params = ParamTypes(Fun(i).params)
                  /\ b.result = Fun(i).result
  <2>1. CASE i = at
    BY <1>5, <2>1 DEF Fun
  <2>2. CASE i # at
    BY <1>2, <1>3, <1>5, <1>7, <2>2 DEF BindingsInv
  <2>3. QED
    BY <2>1, <2>2
<1>11. BindingsInv'
  BY <1>1, <1>2, <1>3, <1>9, <1>10 DEF BindingsInv, Decl, Fun
<1>12. QED
  BY <1>6, <1>8, <1>11

LEMMA SymbolsStep ==
  ASSUME StageInv, SymbolsInv, [Next]_vars
  PROVE  SymbolsInv'
<1> SUFFICES ASSUME stage' # "failed"
             PROVE  NamesInv' /\ BindingsInv' /\ IdsInv'
  BY DEF SymbolsInv
<1>1. CASE RegisterDeclaration
  BY <1>1, DeclarationStep
<1>2. CASE RegisterFunction
  BY <1>2, FunctionStep
<1>3. CASE ~ RegisterDeclaration /\ ~ RegisterFunction
  <2>1. symbols' = symbols /\ ~ Counts("register") /\ ~ Counts("functions")
    BY <1>3, SymbolsStay
  <2>2. /\ source' = source /\ Advances
        /\ Len(source.decls) \in Nat /\ Len(source.functions) \in Nat
    BY NextAdvances, SourceLists DEF StageInv
  <2>3. /\ stage # "failed" /\ DeclsRead' = DeclsRead
        /\ FunctionsRead' = FunctionsRead
    BY <2>1, <2>2 DEF Advances, Goes, Counts, Fails, DeclsRead, FunctionsRead,
                      StageInv
  <2>4. NamesInv /\ BindingsInv /\ IdsInv
    BY <2>3 DEF SymbolsInv
  <2>5. Functions' = Functions
    BY <2>1 DEF Functions
  <2>6. NamesInv'
    BY <2>1, <2>2, <2>3, <2>4 DEF NamesInv, Decl, Fun
  <2>7. BindingsInv'
    BY <2>1, <2>2, <2>3, <2>4 DEF BindingsInv, Decl, Fun
  <2>8. IdsInv'
    BY <2>1, <2>3, <2>4, <2>5 DEF IdsInv
  <2>9. QED
    BY <2>6, <2>7, <2>8
<1>4. QED
  BY <1>1, <1>2, <1>3

-----------------------------------------------------------------------------
(* Counting up to a bound, for the functions that are defined that way.    *)

LEMMA LeastNatural ==
  ASSUME NEW T \in SUBSET Nat, T # {}
  PROVE  \E x \in T : \A y \in T : x <= y
<1>1. PICK x \in T : \A y \in T : ~ (<< y, x >> \in OpToRel(<, Nat))
  BY NatLessThanWellFounded, WFMin
<1>2. \A y \in T : << y, x >> \in Nat \X Nat
  OBVIOUS
<1>3. ASSUME NEW y \in T PROVE ~ (y < x)
  BY <1>1, <1>2 DEF OpToRel
<1>4. \A y \in T : y \in Int /\ x \in Int /\ x <= y
  BY <1>3
<1>5. QED
  BY <1>4

LEMMA CountingUp ==
  ASSUME NEW n \in Nat, NEW T, 0 \in T, \A i \in 1 .. n : i - 1 \in T => i \in T
  PROVE  0 .. n \subseteq T
<1> DEFINE missed == { i \in 0 .. n : i \notin T }
<1>1. SUFFICES ASSUME missed # {} PROVE FALSE
  OBVIOUS
<1>2. PICK x \in missed : \A y \in missed : x <= y
  <2>1. missed \in SUBSET Nat
    OBVIOUS
  <2> HIDE DEF missed
  <2>2. QED
    BY <1>1, <2>1, LeastNatural
<1>3. x \in 1 .. n /\ x - 1 \in 0 .. n /\ ~ (x <= x - 1)
  OBVIOUS
<1>4. x - 1 \in T
  BY <1>2, <1>3
<1>5. QED
  BY <1>3, <1>4

LEMMA PatchingByStep ==
  ASSUME NEW code, Len(code) \in Nat
  PROVE  LET upTo == Patching(code)
         IN  /\ upTo[0] = << >>
             /\ \A i \in 1 .. Len(code) :
                  upTo[i] = IF code[i].op # "call" THEN upTo[i - 1]
                            ELSE Append(upTo[i - 1], [pos |-> i, id |-> code[i].operand])
<1> DEFINE Next1(i, before) ==
             IF code[i].op # "call" THEN before
             ELSE Append(before, [pos |-> i, id |-> code[i].operand])
           Is(f, m) == f = [i \in 0 .. m |-> IF i = 0 THEN << >> ELSE Next1(i, f[i - 1])]
           T == { m \in 0 .. Len(code) : \E f : Is(f, m) }
<1> HIDE DEF Next1
<1>1. \E f : Is(f, 0)
  <2>1. Is([i \in 0 .. 0 |-> << >>], 0)
    OBVIOUS
  <2>2. QED
    BY <2>1, Zenon
<1>2. ASSUME NEW m \in 1 .. Len(code), NEW f, Is(f, m - 1)
      PROVE  \E g : Is(g, m)
  <2> DEFINE g == [i \in 0 .. m |-> IF i = m THEN Next1(m, f[m - 1]) ELSE f[i]]
  <2>1. \A i \in 0 .. m - 1 : g[i] = f[i]
    OBVIOUS
  <2>2. \A i \in 0 .. m - 1 : f[i] = IF i = 0 THEN << >> ELSE Next1(i, f[i - 1])
    BY <1>2
  <2>3. \A i \in 0 .. m : g[i] = IF i = 0 THEN << >> ELSE Next1(i, g[i - 1])
    BY <2>1, <2>2
  <2>4. g = [i \in 0 .. m |-> IF i = 0 THEN << >> ELSE Next1(i, g[i - 1])]
    BY <2>3
  <2> HIDE DEF g
  <2>5. QED
    BY <2>4, Zenon
<1> HIDE DEF Is
<1>3. T \in SUBSET (0 .. Len(code)) /\ 0 \in T
  BY <1>1
<1>4. \A m \in 1 .. Len(code) : m - 1 \in T => m \in T
  BY <1>2
<1>5. Len(code) \in T
  <2> HIDE DEF T
  <2>1. 0 .. Len(code) \subseteq T
    BY <1>3, <1>4, CountingUp
  <2>2. QED
    BY <2>1
<1>6. Is(Patching(code), Len(code))
  <2>1. \E f : Is(f, Len(code))
    BY <1>5
  <2>2. Patching(code) = CHOOSE f : Is(f, Len(code))
    BY Zenon DEF Patching, Is, Next1
  <2>3. QED
    BY <2>1, <2>2, Zenon
<1>7. \A i \in 0 .. Len(code) :
        Patching(code)[i] = IF i = 0 THEN << >> ELSE Next1(i, Patching(code)[i - 1])
  BY <1>6 DEF Is
<1>8. Patching(code)[0] = << >>
  BY <1>7
<1>9. \A i \in 1 .. Len(code) : Patching(code)[i] = Next1(i, Patching(code)[i - 1])
  BY <1>7
<1>10. QED
  BY <1>8, <1>9, Zenon DEF Next1

(* The patches of a block are its calls to script functions. *)
LEMMA PatchesOfCode ==
  ASSUME NEW S, NEW code \in Seq(S)
  PROVE  /\ IsList(PatchesOf(code))
         /\ Len(PatchesOf(code)) <= Len(code)
         /\ PatchesAreCalls(code, PatchesOf(code))
<1> DEFINE upTo == Patching(code)
           Patch == [pos : 1 .. Len(code), id : { code[i].operand : i \in 1 .. Len(code) }]
           Right(p, i) ==
             /\ p \in Seq(Patch)
             /\ Len(p) <= i
             /\ \A k \in 1 .. Len(p) : /\ code[p[k].pos].op = "call"
                                       /\ code[p[k].pos].operand = p[k].id
             /\ \A j \in 1 .. i :
                  code[j].op = "call" => \E k \in 1 .. Len(p) : p[k].pos = j
           T == { i \in 0 .. Len(code) : Right(upTo[i], i) }
<1>1. Len(code) \in Nat
  OBVIOUS
<1>2. /\ upTo[0] = << >>
      /\ \A i \in 1 .. Len(code) :
           upTo[i] = IF code[i].op # "call" THEN upTo[i - 1]
                     ELSE Append(upTo[i - 1], [pos |-> i, id |-> code[i].operand])
  BY <1>1, PatchingByStep
<1> HIDE DEF upTo
<1>3. Right(upTo[0], 0)
  BY <1>2
<1>4. ASSUME NEW i \in 1 .. Len(code), Right(upTo[i - 1], i - 1)
      PROVE  Right(upTo[i], i)
  <2> DEFINE p == upTo[i - 1]
             q == upTo[i]
             patch == [pos |-> i, id |-> code[i].operand]
  <2>1. p \in Seq(Patch) /\ Len(p) \in Nat
    BY <1>4
  <2>2. CASE code[i].op # "call"
    <3>1. q = p
      BY <1>2, <2>2
    <3>2. \A j \in 1 .. i : code[j].op = "call" => j \in 1 .. i - 1
      BY <1>1, <2>2
    <3>3. Len(q) <= i
      BY <1>4, <2>1, <3>1
    <3> HIDE DEF Patch
    <3>4. QED
      BY <1>4, <3>1, <3>2, <3>3
  <2>3. CASE code[i].op = "call"
    <3>1. q = Append(p, patch)
      BY <1>2, <2>3
    <3>2. patch \in Patch /\ patch.pos = i /\ patch.id = code[i].operand
      OBVIOUS
    <3> HIDE DEF Patch, p, patch
    <3>3. /\ q \in Seq(Patch) /\ Len(q) = Len(p) + 1
          /\ \A k \in 1 .. Len(p) : q[k] = p[k]
          /\ q[Len(q)] = patch
      BY <2>1, <3>1, <3>2, AppendProperties
    <3>4. Right(p, i - 1)
      BY <1>4 DEF p
    <3>5. ASSUME NEW k \in 1 .. Len(q)
          PROVE  code[q[k].pos].op = "call" /\ code[q[k].pos].operand = q[k].id
      <4>1. CASE k \in 1 .. Len(p)
        BY <3>3, <3>4, <4>1
      <4>2. CASE k = Len(q)
        BY <2>3, <3>2, <3>3, <4>2
      <4>3. QED
        BY <2>1, <3>3, <4>1, <4>2
    <3>6. ASSUME NEW j \in 1 .. i, code[j].op = "call"
          PROVE  \E k \in 1 .. Len(q) : q[k].pos = j
      <4>1. CASE j = i
        <5>1. Len(q) \in 1 .. Len(q)
          BY <2>1, <3>3
        <5>2. QED
          BY <3>2, <3>3, <4>1, <5>1
      <4>2. CASE j # i
        <5>1. PICK k \in 1 .. Len(p) : p[k].pos = j
          BY <3>4, <3>6, <4>2
        <5>2. k \in 1 .. Len(q) /\ q[k] = p[k]
          BY <2>1, <3>3
        <5>3. QED
          BY <5>1, <5>2
      <4>3. QED
        BY <4>1, <4>2
    <3>7. Len(q) <= i
      BY <2>1, <3>3, <3>4
    <3>8. QED
      BY <3>3, <3>5, <3>6, <3>7
  <2>4. QED
    BY <2>2, <2>3
<1>5. Right(PatchesOf(code), Len(code))
  <2> HIDE DEF Right
  <2>1. 0 \in T /\ \A i \in 1 .. Len(code) : i - 1 \in T => i \in T
    BY <1>1, <1>3, <1>4
  <2> HIDE DEF T
  <2>2. 0 .. Len(code) \subseteq T
    BY <1>1, <2>1, CountingUp
  <2>3. Len(code) \in T
    BY <1>1, <2>2
  <2>4. QED
    BY <2>3 DEF T, PatchesOf, upTo
<1> DEFINE p == PatchesOf(code)
<1>6. IsList(p)
  <2>1. p \in Seq(Range(p))
    <3>1. p \in Seq(Patch)
      BY <1>5
    <3> HIDE DEF p
    <3>2. QED
      BY <3>1, SeqOfRange
  <2>2. QED
    BY <2>1 DEF IsList
<1>7. \A k \in 1 .. Len(p) :
        DOMAIN p[k] = {"pos", "id"} /\ p[k].pos \in 1 .. Len(code)
  <2> HIDE DEF p
  <2>1. p \in Seq(Patch)
    BY <1>5 DEF p
  <2>2. \A k \in 1 .. Len(p) : p[k] \in Patch
    <3> HIDE DEF Patch
    <3>1. QED
      BY <2>1, ElementOfSeq
  <2>3. QED
    BY <2>2
<1>8. QED
  BY <1>5, <1>6, <1>7 DEF PatchesAreCalls

LEMMA ReturnAppended ==
  ASSUME NEW S, NEW code \in Seq(S)
  PROVE  LET all == WithReturn(code)
         IN  /\ all \in Seq(S \cup {Return})
             /\ Len(all) \in Len(code) .. Len(code) + 1
             /\ \A k \in 1 .. Len(code) : all[k] = code[k]
             /\ \A k \in Len(code) + 1 .. Len(all) : all[k] = Return
<1>1. CASE WithReturn(code) = code
  <2>1. code \in Seq(S \cup {Return})
    BY SeqMonotonic
  <2>2. Len(code) \in Nat
    OBVIOUS
  <2>3. QED
    BY <1>1, <2>1, <2>2
<1>2. CASE WithReturn(code) = Append(code, Return)
  <2>1. Len(code) \in Nat
    OBVIOUS
  <2>2. code \in Seq(S \cup {Return})
    BY SeqMonotonic
  <2>3. /\ Append(code, Return) \in Seq(S \cup {Return})
        /\ Len(Append(code, Return)) = Len(code) + 1
        /\ \A k \in 1 .. Len(code) : Append(code, Return)[k] = code[k]
        /\ Append(code, Return)[Len(code) + 1] = Return
    BY <2>2, AppendProperties
  <2>4. QED
    BY <1>2, <2>1, <2>3
<1>3. QED
  BY <1>1, <1>2 DEF WithReturn

LEMMA ListIsSeq ==
  ASSUME NEW S, NEW list \in Seq(S)
  PROVE  IsList(list)
BY SeqOfRange DEF IsList

(* The cells of a body become cells of the same kind in the same place. *)
LEMMA ControlCells ==
  ASSUME NEW f, NEW k \in DOMAIN f.body
  PROVE  ControlCell(f, k, CodeCell(f, f.body[k]))
<1> DEFINE written == f.body[k]
<1>1. CASE written.op = "call"
  BY <1>1 DEF ControlCell, CodeCell
<1>2. CASE written.op = "jump"
  BY <1>2 DEF ControlCell, CodeCell
<1>3. CASE written.op \in {"use", "text"}
  <2>1. CodeCell(f, written).op = "address"
    BY <1>3 DEF CodeCell, UseCell, AddressCell
  <2>2. QED
    BY <1>3, <2>1 DEF ControlCell
<1>4. CASE written.op \notin {"call", "jump", "use", "text"}
  <2>1. CodeCell(f, written).op = written.op
    BY <1>4 DEF CodeCell
  <2>2. QED
    BY <1>4, <2>1 DEF ControlCell
<1>5. QED
  BY <1>1, <1>2, <1>3, <1>4

LEMMA BlockCode ==
  ASSUME NEW f, IsList(f.body)
  PROVE  LET block == BlockOf(f)
         IN  /\ IsList(block.code) /\ IsList(block.patches)
             /\ Len(block.code) \in Len(f.body) .. Len(f.body) + 1
             /\ Len(block.patches) <= Len(block.code)
             /\ \A k \in 1 .. Len(f.body) : ControlCell(f, k, block.code[k])
             /\ \A k \in Len(f.body) + 1 .. Len(block.code) :
                  block.code[k].op \notin {"call", "jump"}
             /\ PatchesAreCalls(block.code, block.patches)
<1> DEFINE Cell(k) == CodeCell(f, f.body[k])
           S == { Cell(k) : k \in 1 .. Len(f.body) }
           cells == [k \in DOMAIN f.body |-> Cell(k)]
           code == WithReturn(cells)
<1>1. Len(f.body) \in Nat /\ DOMAIN f.body = 1 .. Len(f.body)
  BY Lists
<1>2. BlockOf(f).code = code /\ BlockOf(f).patches = PatchesOf(code)
  BY DEF BlockOf
<1>3. \A k \in 1 .. Len(f.body) : ControlCell(f, k, Cell(k))
  BY <1>1, ControlCells
<1> HIDE DEF Cell
<1>4. cells \in Seq(S) /\ Len(cells) = Len(f.body)
  BY <1>1
<1> HIDE DEF cells, S
<1>5. /\ code \in Seq(S \cup {Return})
      /\ Len(code) \in Len(f.body) .. Len(f.body) + 1
      /\ \A k \in 1 .. Len(f.body) : code[k] = cells[k]
      /\ \A k \in Len(f.body) + 1 .. Len(code) : code[k] = Return
  BY <1>4, ReturnAppended
<1> HIDE DEF code
<1>6. \A k \in 1 .. Len(f.body) : cells[k] = Cell(k)
  BY <1>1 DEF cells
<1>7. IsList(code)
  BY <1>5, ListIsSeq
<1>8. IsList(PatchesOf(code)) /\ Len(PatchesOf(code)) <= Len(code)
      /\ PatchesAreCalls(code, PatchesOf(code))
  BY <1>5, PatchesOfCode
<1>9. \A k \in Len(f.body) + 1 .. Len(code) : code[k].op \notin {"call", "jump"}
  BY <1>5 DEF Return
<1>10. \A k \in 1 .. Len(f.body) : ControlCell(f, k, code[k])
  BY <1>3, <1>5, <1>6
<1>11. QED
  BY <1>2, <1>5, <1>7, <1>8, <1>9, <1>10

-----------------------------------------------------------------------------
(* Each function is compiled once, to a block that calls functions of the  *)
(* program.                                                                *)

AllBound == stage \notin BeforeCompile \cup {"failed"}

LEMMA FunctionsBound ==
  ASSUME StageInv, SymbolsInv, AllBound
  PROVE  /\ \A i \in 1 .. Len(source.functions) :
              /\ Fun(i).name \in Functions
              /\ symbols[Fun(i).name].scope = "script"
              /\ symbols[Fun(i).name].params = ParamTypes(Fun(i).params)
              /\ symbols[Fun(i).name].result = Fun(i).result
              /\ IdOf(i) \in Ids
         /\ \A i, j \in 1 .. Len(source.functions) :
              IdOf(i) = IdOf(j) => i = j
         /\ \A name \in Functions :
              \/ \E i \in 1 .. Len(source.functions) : name = Fun(i).name
              \/ \E d \in Externs :
                   /\ name = d.name
                   /\ symbols[name].scope = "extern"
                   /\ symbols[name].slot = d.slot
                   /\ symbols[name].params = ParamTypes(d.params)
<1>1. /\ Len(source.functions) \in Nat /\ Len(source.decls) \in Nat
      /\ IsSource(source)
      /\ DOMAIN source.decls = 1 .. Len(source.decls)
  BY SourceLists DEF StageInv
<1>2. FunctionsRead = Len(source.functions) /\ DeclsRead = Len(source.decls)
  BY DEF FunctionsRead, DeclsRead, AllBound, BeforeCompile
<1>3. NamesInv /\ BindingsInv /\ IdsInv
  BY DEF AllBound, SymbolsInv
<1>4. \A i \in 1 .. Len(source.functions) :
        /\ Fun(i).name \in Functions
        /\ symbols[Fun(i).name].scope = "script"
        /\ symbols[Fun(i).name].params = ParamTypes(Fun(i).params)
        /\ symbols[Fun(i).name].result = Fun(i).result
  BY <1>2, <1>3 DEF NamesInv, BindingsInv, Functions
<1>5. \A n \in Functions : symbols[n].id \in Ids
  <2>1. Cardinality(Functions) \in Nat
    BY <1>3, FS_CardinalityType DEF IdsInv
  <2>2. 0 .. Len(source.decls) + Len(source.functions) \subseteq Ids
    BY IdsAssumption DEF StageInv
  <2>3. Cardinality(Functions) <= Len(source.decls) + Len(source.functions)
    BY <1>2, <1>3 DEF IdsInv
  <2>4. \A n \in Functions : symbols[n].id \in 0 .. Cardinality(Functions) - 1
    BY <1>3 DEF IdsInv
  <2> DEFINE count == Cardinality(Functions)
             decls == Len(source.decls)
             functions == Len(source.functions)
  <2>5. count \in Nat /\ decls \in Nat /\ functions \in Nat
    BY <1>1, <2>1
  <2>6. count <= decls + functions
    BY <2>3
  <2> HIDE DEF count, decls, functions
  <2>7. \A c \in 0 .. count - 1 : c \in 0 .. decls + functions
    BY <2>5, <2>6
  <2>8. \A n \in Functions : symbols[n].id \in 0 .. decls + functions
    BY <2>4, <2>7 DEF count
  <2>9. QED
    BY <2>2, <2>8 DEF decls, functions
<1>6. \A i, j \in 1 .. Len(source.functions) : IdOf(i) = IdOf(j) => i = j
  BY <1>2, <1>3, <1>4 DEF IdsInv, NamesInv, IdOf
<1>7. ASSUME NEW name \in Functions,
             ~ \E i \in 1 .. Len(source.functions) : name = Fun(i).name
      PROVE  \E d \in Externs :
               /\ name = d.name
               /\ symbols[name].scope = "extern"
               /\ symbols[name].slot = d.slot
               /\ symbols[name].params = ParamTypes(d.params)
  <2>1. name \in DOMAIN symbols /\ symbols[name].scope # "variable"
    BY DEF Functions
  <2>2. PICK i \in 1 .. Len(source.decls) : name = Decl(i).name
    BY <1>2, <1>3, <1>7, <2>1 DEF NamesInv
  <2>3. Decl(i) \in Range(source.decls)
    BY <1>1 DEF Decl, Range
  <2>4. Decl(i).kind = "function"
    BY <1>1, <1>2, <1>3, <2>1, <2>2, <2>3 DEF IsSource, BindingsInv
  <2>5. Decl(i) \in Externs
    BY <2>3, <2>4 DEF Externs
  <2>6. QED
    BY <1>2, <1>3, <2>2, <2>4, <2>5 DEF BindingsInv
<1>8. QED
  BY <1>4, <1>5, <1>6, <1>7 DEF IdOf

LEMMA FunctionLists ==
  ASSUME StageInv, NEW i \in 1 .. Len(source.functions)
  PROVE  /\ IsList(Fun(i).body) /\ IsList(Fun(i).params) /\ IsList(Fun(i).locals)
         /\ Fun(i) \in Range(source.functions)
<1>1. Fun(i) \in Range(source.functions)
  BY SourceLists DEF Fun, Range, StageInv
<1>2. QED
  BY <1>1, SourceLists DEF StageInv, IsSource

(* What CompileFunction makes of function number at. *)
LEMMA CompiledBlock ==
  ASSUME StageInv, SymbolsInv, CompileFunction, stage' # "failed"
  PROVE  LET f == Fun(at)
             block == BlockOf(f)
             id == IdOf(at)
         IN  /\ stage = "compile" /\ stage' = "compile" /\ at' = at + 1
             /\ at \in 1 .. Len(source.functions)
             /\ block.binding = symbols[f.name]
             /\ AddBlock(id, [k \in 1 .. Len(block.patches) |-> block.patches[k].id])
             /\ blocks' = [b \in DOMAIN blocks \cup {id} |->
                             IF b = id THEN block ELSE blocks[b]]
             /\ ~ FunctionRefused(f)
             /\ Intern(f.body)
             /\ UNCHANGED << source, symbols, program, linked, failure >>
<1> DEFINE f == Fun(at)
           block == BlockOf(f)
<1>1. /\ stage = "compile" /\ stage' = "compile" /\ at' = at + 1
      /\ at \in 1 .. Len(source.functions)
      /\ ~ FunctionRefused(f)
      /\ AddBlock(block.binding.id, [k \in DOMAIN block.patches |-> block.patches[k].id])
      /\ blocks' = [b \in DOMAIN blocks \cup {block.binding.id} |->
                      IF b = block.binding.id THEN block ELSE blocks[b]]
      /\ Intern(f.body)
      /\ UNCHANGED << source, symbols, program, linked, failure >>
  BY SourceLists DEF CompileFunction, Failed, StageInv, Fun
<1>2. block.binding = symbols[f.name] /\ block.binding.id = IdOf(at)
  BY DEF BlockOf, IdOf
<1>3. IsList(f.body)
  BY <1>1, FunctionLists
<1>4. DOMAIN block.patches = 1 .. Len(block.patches)
  <2>1. IsList(block.patches)
    BY <1>3, BlockCode
  <2> HIDE DEF block
  <2>2. QED
    BY <2>1, Lists
<1> HIDE DEF block
<1>5. QED
  BY <1>1, <1>2, <1>4 DEF block

(* A call that is patched is one to a function of the program. *)
LEMMA PatchedCall ==
  ASSUME StageInv, SymbolsInv, AllBound,
         NEW call, ~ CallRefused(call), CallCell(call).op = "call"
  PROVE  \E j \in 1 .. Len(source.functions) :
           call.name = Fun(j).name /\ CallCell(call).operand = IdOf(j)
<1>1. CASE call.name \in Functions
  <2>1. symbols[call.name].scope # "extern" /\ CallCell(call).operand = symbols[call.name].id
    BY DEF CallCell
  <2>2. PICK j \in 1 .. Len(source.functions) : call.name = Fun(j).name
    BY <1>1, <2>1, FunctionsBound
  <2>3. QED
    BY <2>1, <2>2 DEF IdOf
<1>2. CASE call.name \notin Functions
  BY <1>2 DEF CallRefused
<1>3. QED
  BY <1>1, <1>2

LEMMA GraphVarsStay ==
  ASSUME [Next]_vars, ~ CompileFunction, ~ MarkFromEntry, ~ Mark
  PROVE  graphVars' = graphVars
<1>1. CASE ReadStruct \/ ReadVariables
  BY <1>1 DEF ReadStruct, ReadVariables
<1>2. CASE RegisterDeclaration \/ EndDeclarations
  BY <1>2 DEF RegisterDeclaration, EndDeclarations
<1>3. CASE InitializeGlobal
  BY <1>3 DEF InitializeGlobal
<1>4. CASE RegisterFunction \/ FindEntry
  BY <1>4 DEF RegisterFunction, FindEntry
<1>5. CASE EndMark
  BY <1>5 DEF EndMark
<1>6. CASE AssembleBlock \/ EndAssembly
  BY <1>6 DEF AssembleBlock, EndAssembly
<1>7. CASE LinkVariable \/ EndVariables \/ LinkExterns
  BY <1>7 DEF LinkVariable, EndVariables, LinkExterns
<1>8. CASE LinkFunction \/ EndTables
  BY <1>8 DEF LinkFunction, EndTables
<1>9. CASE PatchCall \/ EndLink
  BY <1>9 DEF PatchCall, EndLink
<1>10. CASE UNCHANGED vars
  BY <1>10 DEF vars
<1>11. QED
  BY <1>1, <1>2, <1>3, <1>4, <1>5, <1>6, <1>7, <1>8, <1>9, <1>10 DEF Next

(* The patches of a block that CompileFunction makes name functions of the *)
(* program.                                                                *)
LEMMA CompiledCalls ==
  ASSUME StageInv, SymbolsInv, CompileFunction, stage' # "failed"
  PROVE  LET f == Fun(at)
             block == BlockOf(f)
         IN  /\ \A k \in 1 .. Len(f.body) : f.body[k].op = "call" => ~ CallRefused(f.body[k])
             /\ [k \in 1 .. Len(block.patches) |-> block.patches[k].id] \in CalleeLists
<1> DEFINE f == Fun(at)
           block == BlockOf(f)
           n == Len(block.patches)
<1>1. /\ stage = "compile" /\ at \in 1 .. Len(source.functions)
      /\ ~ FunctionRefused(f)
  BY CompiledBlock
<1>2. AllBound
  BY <1>1 DEF AllBound, BeforeCompile
<1>3. /\ IsList(f.body) /\ f \in Range(source.functions)
      /\ Len(f.body) \in Nat /\ DOMAIN f.body = 1 .. Len(f.body)
  BY <1>1, FunctionLists, Lists
<1>4. \A k \in 1 .. Len(f.body) : f.body[k].op = "call" => ~ CallRefused(f.body[k])
  BY <1>1, <1>3 DEF FunctionRefused, BodyRefused
<1>5. /\ IsList(block.patches)
      /\ Len(block.code) \in Len(f.body) .. Len(f.body) + 1
      /\ Len(block.patches) <= Len(block.code)
      /\ \A k \in 1 .. Len(f.body) : ControlCell(f, k, block.code[k])
      /\ \A k \in Len(f.body) + 1 .. Len(block.code) :
           block.code[k].op \notin {"call", "jump"}
      /\ PatchesAreCalls(block.code, block.patches)
  BY <1>3, BlockCode
<1> HIDE DEF block, f
<1>6. n \in 0 .. Len(f.body) + 1
  BY <1>3, <1>5, Lists
<1>7. ASSUME NEW k \in 1 .. n
      PROVE  block.patches[k].id \in Ids
  <2> DEFINE pos == block.patches[k].pos
  <2>1. /\ pos \in 1 .. Len(block.code) /\ block.code[pos].op = "call"
        /\ block.code[pos].operand = block.patches[k].id
    BY <1>5 DEF PatchesAreCalls
  <2> HIDE DEF pos
  <2>2. pos \in 1 .. Len(f.body)
    BY <1>3, <1>5, <2>1
  <2>3. block.code[pos] = CallCell(f.body[pos]) /\ f.body[pos].op = "call"
    BY <1>5, <2>1, <2>2 DEF ControlCell
  <2>4. \E j \in 1 .. Len(source.functions) : block.patches[k].id = IdOf(j)
    BY <1>2, <1>4, <2>1, <2>2, <2>3, PatchedCall
  <2>5. QED
    BY <1>2, <2>4, FunctionsBound
<1>8. [1 .. n -> Ids] \subseteq CalleeLists
  BY <1>3, <1>6, IdsAssumption DEF StageInv
<1>9. [k \in 1 .. n |-> block.patches[k].id] \in [1 .. n -> Ids]
  BY <1>7
<1>10. QED
  BY <1>4, <1>8, <1>9 DEF block, f

(* To the walk over the calls, the toolchain adds blocks, begins, walks.   *)
LEMMA GraphSteps ==
  ASSUME StageInv, SymbolsInv, GraphInv, WalkInv, [Next]_vars
  PROVE  stage' = "failed" \/ [GraphNext]_graphVars
<1> SUFFICES ASSUME stage' # "failed" PROVE [GraphNext]_graphVars
  OBVIOUS
<1>1. CASE CompileFunction
  <2> DEFINE callees == [k \in 1 .. Len(BlockOf(Fun(at)).patches) |->
                           BlockOf(Fun(at)).patches[k].id]
  <2>1. /\ stage = "compile" /\ at \in 1 .. Len(source.functions)
        /\ AddBlock(IdOf(at), callees)
    BY <1>1, CompiledBlock
  <2>2. callees \in CalleeLists
    BY <1>1, CompiledCalls
  <2>3. AllBound
    BY <2>1 DEF AllBound, BeforeCompile
  <2>4. IdOf(at) \in Ids
    BY <2>1, <2>3, FunctionsBound
  <2> HIDE DEF callees
  <2>5. QED
    BY <2>1, <2>2, <2>4 DEF GraphNext
<1>2. CASE MarkFromEntry
  <2>1. stage = "compile" /\ BeginWalk(EntryFunction)
    BY <1>2 DEF MarkFromEntry
  <2>2. AllBound
    BY <2>1 DEF AllBound, BeforeCompile
  <2>3. \E i \in 1 .. Len(source.functions) : EntryFunction = IdOf(i)
    BY <2>1 DEF WalkInv, BeforeCompile, EntryFunction, IdOf
  <2>4. EntryFunction \in Ids
    BY <2>2, <2>3, FunctionsBound
  <2>5. QED
    BY <2>1, <2>4 DEF GraphNext
<1>3. CASE Mark
  BY <1>3 DEF Mark, GraphNext
<1>4. CASE ~ CompileFunction /\ ~ MarkFromEntry /\ ~ Mark
  BY <1>4, GraphVarsStay
<1>5. QED
  BY <1>1, <1>2, <1>3, <1>4

LEMMA GraphStep ==
  ASSUME StageInv, SymbolsInv, GraphInv, WalkInv, [Next]_vars, stage' # "failed"
  PROVE  GraphInv'
<1>1. [GraphNext]_graphVars
  BY GraphSteps
<1>2. QED
  BY <1>1, TypeInductive, PathInductive, FollowedInductive, ClosedInductive,
     ReachInductive, CycleInductive DEF GraphInv

LEMMA TypesStay ==
  ASSUME [Next]_vars, stage # "structs"
  PROVE  types' = types
<1>1. CASE RegisterDeclaration
  BY <1>1 DEF RegisterDeclaration, RegisterVariable, RegisterExtern, PlaceVariable,
              layoutVars
<1>2. CASE InitializeGlobal
  BY <1>2 DEF InitializeGlobal, Initialize, layoutVars
<1>3. CASE CompileFunction
  BY <1>3 DEF CompileFunction, Intern, layoutVars
<1>4. CASE ReadStruct \/ ReadVariables
  BY <1>4 DEF ReadStruct, ReadVariables
<1>5. CASE EndDeclarations \/ RegisterFunction \/ FindEntry
  BY <1>5 DEF EndDeclarations, RegisterFunction, FindEntry, layoutVars
<1>6. CASE MarkFromEntry \/ Mark \/ EndMark
  BY <1>6 DEF MarkFromEntry, Mark, EndMark, layoutVars
<1>7. CASE AssembleBlock \/ EndAssembly
  BY <1>7 DEF AssembleBlock, EndAssembly, layoutVars
<1>8. CASE LinkVariable \/ EndVariables \/ LinkExterns
  BY <1>8 DEF LinkVariable, EndVariables, LinkExterns, layoutVars
<1>9. CASE LinkFunction \/ EndTables
  BY <1>9 DEF LinkFunction, EndTables, layoutVars
<1>10. CASE PatchCall \/ EndLink
  BY <1>10 DEF PatchCall, EndLink, layoutVars
<1>11. CASE UNCHANGED vars
  BY <1>11 DEF vars, layoutVars
<1>12. QED
  BY <1>1, <1>2, <1>3, <1>4, <1>5, <1>6, <1>7, <1>8, <1>9, <1>10, <1>11 DEF Next

LEMMA BlocksStay ==
  ASSUME [Next]_vars, ~ CompileFunction
  PROVE  blocks' = blocks /\ calls' = calls
<1>1. CASE MarkFromEntry
  BY <1>1 DEF MarkFromEntry, BeginWalk
<1>2. CASE Mark
  BY <1>2 DEF Mark, Walk, Enter, Skip, ReportCycle, ReportUnknown, LeaveBlock
<1>3. CASE ~ MarkFromEntry /\ ~ Mark
  <2>1. calls' = calls
    BY <1>3, GraphVarsStay DEF graphVars
  <2>2. blocks' = blocks
    <3>1. CASE ReadStruct \/ ReadVariables
      BY <3>1 DEF ReadStruct, ReadVariables
    <3>2. CASE RegisterDeclaration \/ EndDeclarations
      BY <3>2 DEF RegisterDeclaration, EndDeclarations
    <3>3. CASE InitializeGlobal
      BY <3>3 DEF InitializeGlobal
    <3>4. CASE RegisterFunction \/ FindEntry
      BY <3>4 DEF RegisterFunction, FindEntry
    <3>5. CASE EndMark
      BY <3>5 DEF EndMark
    <3>6. CASE AssembleBlock \/ EndAssembly
      BY <3>6 DEF AssembleBlock, EndAssembly
    <3>7. CASE LinkVariable \/ EndVariables \/ LinkExterns
      BY <3>7 DEF LinkVariable, EndVariables, LinkExterns
    <3>8. CASE LinkFunction \/ EndTables
      BY <3>8 DEF LinkFunction, EndTables
    <3>9. CASE PatchCall \/ EndLink
      BY <3>9 DEF PatchCall, EndLink
    <3>10. CASE UNCHANGED vars
      BY <3>10 DEF vars
    <3>11. QED
      BY <1>3, <3>1, <3>2, <3>3, <3>4, <3>5, <3>6, <3>7, <3>8, <3>9, <3>10 DEF Next
  <2>3. QED
    BY <2>1, <2>2
<1>4. QED
  BY <1>1, <1>2, <1>3

(* A block that stays is still its function's. *)
LEMMA BlockStays ==
  ASSUME source' = source, symbols' = symbols, types' = types,
         NEW i, BlockIsOf(i),
         blocks'[IdOf(i)] = blocks[IdOf(i)], calls'[IdOf(i)] = calls[IdOf(i)]
  PROVE  BlockIsOf(i)'
<1>1. \A names : FrameLayout(names)' = FrameLayout(names)
  BY DEF FrameLayout
<1>2. IdOf(i)' = IdOf(i) /\ Fun(i)' = Fun(i)
  BY DEF IdOf, Fun
<1>3. \A f, k, cell : ControlCell(f, k, cell)' <=> ControlCell(f, k, cell)
  BY DEF ControlCell, CallCell
<1>4. \A call : CallRefused(call)' <=> CallRefused(call)
  BY DEF CallRefused, Functions
<1>5. QED
  BY <1>1, <1>2, <1>3, <1>4 DEF BlockIsOf

LEMMA CompileCounts ==
  ASSUME [Next]_vars, ~ CompileFunction
  PROVE  ~ (stage = "compile" /\ stage' = "compile" /\ at' = at + 1 /\ at \in Nat)
<1> SUFFICES ASSUME stage = "compile", stage' = "compile", at' = at + 1, at \in Nat
             PROVE  FALSE
  OBVIOUS
<1>1. CASE MarkFromEntry
  BY <1>1 DEF MarkFromEntry
<1>2. CASE UNCHANGED vars
  BY <1>2 DEF vars
<1>3. CASE ~ MarkFromEntry
  BY <1>2, <1>3
     DEF Next, ReadStruct, ReadVariables, RegisterDeclaration, EndDeclarations,
         InitializeGlobal, RegisterFunction, FindEntry, Mark, EndMark, AssembleBlock,
         EndAssembly, LinkVariable, EndVariables, LinkExterns, LinkFunction,
         EndTables, PatchCall, EndLink
<1>4. QED
  BY <1>1, <1>3

LEMMA BlocksStep ==
  ASSUME StageInv, SymbolsInv, BlocksInv, [Next]_vars
  PROVE  BlocksInv'
<1> SUFFICES ASSUME stage' # "failed" PROVE BlocksInv'
  BY DEF BlocksInv
<1>1. CASE CompileFunction
  <2>0. PICK n : n = at
    OBVIOUS
  <2> DEFINE f == Fun(n)
             block == BlockOf(f)
             id == IdOf(n)
             callees == [k \in 1 .. Len(block.patches) |-> block.patches[k].id]
  <2>1. /\ stage = "compile" /\ stage' = "compile" /\ at' = n + 1
        /\ n \in 1 .. Len(source.functions)
        /\ block.binding = symbols[f.name]
        /\ AddBlock(id, callees)
        /\ blocks' = [b \in DOMAIN blocks \cup {id} |->
                        IF b = id THEN block ELSE blocks[b]]
        /\ source' = source /\ symbols' = symbols
    BY <1>1, <2>0, CompiledBlock
  <2>2. AllBound
    BY <2>1 DEF AllBound, BeforeCompile
  <2>3. \A k \in 1 .. Len(f.body) : f.body[k].op = "call" => ~ CallRefused(f.body[k])
    BY <1>1, <2>0, CompiledCalls
  <2>4. Compiled = n - 1 /\ Compiled' = n /\ n \in Nat
    BY <2>0, <2>1 DEF Compiled, BeforeCompile, StageInv
  <2>5. types' = types
    BY <2>1, TypesStay
  <2>6. /\ Blocks = { IdOf(i) : i \in 1 .. n - 1 } /\ DOMAIN blocks = Blocks
        /\ \A i \in 1 .. n - 1 : BlockIsOf(i)
    BY <2>1, <2>4 DEF BlocksInv
  <2>7. \A i \in 1 .. n : IdOf(i)' = IdOf(i) /\ Fun(i)' = Fun(i)
    BY <2>1 DEF IdOf, Fun
  <2>8. \A i \in 1 .. n - 1 : IdOf(i) # id
    BY <2>1, <2>2, <2>4, FunctionsBound
  <2> HIDE DEF block, id, callees
  <2>9. /\ Blocks' = Blocks \cup {id} /\ DOMAIN blocks' = Blocks \cup {id}
        /\ calls'[id] = callees /\ blocks'[id] = block
        /\ \A b \in Blocks : b # id => calls'[b] = calls[b] /\ blocks'[b] = blocks[b]
    BY <2>1, <2>6 DEF AddBlock, Blocks
  <2>10. Blocks' = { IdOf(i)' : i \in 1 .. n }
    <3>1. \A b : b \in Blocks' <=> b = IdOf(n) \/ \E i \in 1 .. n - 1 : b = IdOf(i)
      BY <2>6, <2>9 DEF id
    <3>2. \A b : b \in Blocks' <=> \E i \in 1 .. n : b = IdOf(i)
      BY <2>1, <2>4, <3>1
    <3>3. QED
      BY <2>7, <3>2
  <2>11. ASSUME NEW i \in 1 .. n - 1
         PROVE  BlockIsOf(i)'
    <3>1. /\ blocks'[IdOf(i)] = blocks[IdOf(i)] /\ calls'[IdOf(i)] = calls[IdOf(i)]
          /\ BlockIsOf(i)
      BY <2>6, <2>8, <2>9
    <3>2. QED
      BY <2>1, <2>5, <3>1, BlockStays
  <2>12. BlockIsOf(n)'
    <3>1. IsList(f.body)
      BY <2>1, FunctionLists
    <3>2. /\ IsList(block.code) /\ IsList(block.patches)
          /\ Len(block.code) \in Len(f.body) .. Len(f.body) + 1
          /\ \A k \in 1 .. Len(f.body) : ControlCell(f, k, block.code[k])
          /\ \A k \in Len(f.body) + 1 .. Len(block.code) :
               block.code[k].op \notin {"call", "jump"}
          /\ PatchesAreCalls(block.code, block.patches)
      BY <3>1, BlockCode DEF block
    <3>3. LET layout == FrameLayout(ParamTypes(f.params) \o f.locals)
          IN  /\ block.offsets = SubSeq(layout.offsets, 1, Len(f.params))
              /\ block.frame = layout.size
      BY DEF block, BlockOf
    <3>4. Len(f.body) <= Len(block.code)
      <4>1. Len(f.body) \in Nat
        BY <3>1, Lists
      <4>2. QED
        BY <3>2, <4>1
    <3> HIDE DEF f
    <3>5. \A names : FrameLayout(names)' = FrameLayout(names)
      BY <2>5 DEF FrameLayout
    <3>6. \A g, k, cell : ControlCell(g, k, cell)' <=> ControlCell(g, k, cell)
      BY <2>1 DEF ControlCell, CallCell
    <3>7. \A call : CallRefused(call)' <=> CallRefused(call)
      BY <2>1 DEF CallRefused, Functions
    <3>8. IdOf(n)' = id /\ Fun(n)' = f
      BY <2>1, <2>7 DEF id, f
    <3>9. QED
      BY <2>1, <2>3, <2>9, <3>2, <3>3, <3>4, <3>5, <3>6, <3>7, <3>8 DEF BlockIsOf, callees
  <2>13. \A i \in 1 .. n : BlockIsOf(i)'
    BY <2>4, <2>11, <2>12
  <2>14. DOMAIN blocks' = Blocks'
    BY <2>9
  <2>15. QED
    BY <2>4, <2>10, <2>13, <2>14 DEF BlocksInv
<1>2. CASE ~ CompileFunction
  <2>1. blocks' = blocks /\ calls' = calls
    BY <1>2, BlocksStay
  <2>2. source' = source /\ Advances /\ Len(source.functions) \in Nat
    BY NextAdvances, SourceLists DEF StageInv
  <2>3. ~ Counts("compile")
    BY <1>2, CompileCounts DEF Counts, StageInv
  <2>4. stage # "failed" /\ Compiled' = Compiled /\ Compiled \in 0 .. Len(source.functions)
    BY <2>2, <2>3 DEF Advances, Goes, Counts, Fails, Compiled, BeforeCompile, StageInv
  <2>5. CASE stage \in BeforeCompile
    <3>1. Compiled = 0
      BY <2>5 DEF Compiled
    <3>2. QED
      BY <2>1, <2>4, <3>1 DEF BlocksInv, Blocks
  <2>6. CASE stage \notin BeforeCompile
    <3>1. types' = types
      BY <2>6, TypesStay DEF BeforeCompile
    <3>2. symbols' = symbols
      BY <2>6, SymbolsStay DEF BeforeCompile, RegisterDeclaration, RegisterFunction
    <3>3. \A i \in 1 .. Compiled : BlockIsOf(i) /\ IdOf(i)' = IdOf(i)
      BY <2>2, <2>4, <3>2 DEF BlocksInv, IdOf, Fun
    <3>4. \A i \in 1 .. Compiled : BlockIsOf(i)'
      BY <2>1, <2>2, <3>1, <3>2, <3>3, BlockStays
    <3>5. QED
      BY <2>1, <2>4, <3>3, <3>4 DEF BlocksInv, Blocks
  <2>7. QED
    BY <2>5, <2>6
<1>3. QED
  BY <1>1, <1>2

LEMMA LoopsGoOn ==
  ASSUME [Next]_vars, ~ FindEntry, ~ MarkFromEntry, ~ EndMark
  PROVE  /\ ~ (stage = "functions" /\ stage' = "compile")
         /\ ~ (stage = "compile" /\ stage' = "mark")
         /\ ~ (stage = "mark" /\ stage' = "assemble")
<1>1. CASE UNCHANGED vars
  BY <1>1 DEF vars
<1>2. CASE ~ UNCHANGED vars
  BY <1>2
     DEF Next, Failed, ReadStruct, ReadVariables, RegisterDeclaration, EndDeclarations,
         InitializeGlobal, RegisterFunction, CompileFunction, Mark, AssembleBlock,
         EndAssembly, LinkVariable, EndVariables, LinkExterns, LinkFunction,
         EndTables, PatchCall, EndLink
<1>3. QED
  BY <1>1, <1>2

-----------------------------------------------------------------------------
(* The walk over the calls meets no unknown function.                      *)

(* What the patches of the blocks name are functions of the program, and   *)
(* each is a call of the source.                                           *)
LEMMA CalleesAreFunctions ==
  ASSUME StageInv, SymbolsInv, BlocksInv, AllBound, NEW i \in 1 .. Compiled
  PROVE  \A c : c \in Callees(IdOf(i)) <=>
           \E k \in 1 .. Len(Fun(i).body), j \in 1 .. Len(source.functions) :
             /\ Fun(i).body[k].op = "call" /\ Fun(i).body[k].name = Fun(j).name
             /\ c = IdOf(j)
<1> DEFINE f == Fun(i)
           code == blocks[IdOf(i)].code
           patches == blocks[IdOf(i)].patches
<1>1. BlockIsOf(i) /\ i \in 1 .. Len(source.functions)
  BY SourceLists DEF BlocksInv, AllBound, StageInv
<1>2. /\ Len(f.body) <= Len(code)
      /\ IsList(code) /\ IsList(patches)
      /\ \A k \in 1 .. Len(f.body) : ControlCell(f, k, code[k])
      /\ \A k \in Len(f.body) + 1 .. Len(code) : code[k].op \notin {"call", "jump"}
      /\ PatchesAreCalls(code, patches)
      /\ calls[IdOf(i)] = [k \in 1 .. Len(patches) |-> patches[k].id]
      /\ \A k \in 1 .. Len(f.body) : f.body[k].op = "call" => ~ CallRefused(f.body[k])
  BY <1>1 DEF BlockIsOf
<1>3. Len(f.body) \in Nat /\ Len(code) \in Nat /\ Len(patches) \in Nat
  BY <1>1, <1>2, FunctionLists, Lists
<1> HIDE DEF f, code, patches
<1>4. \A c : c \in Callees(IdOf(i)) <=> \E k \in 1 .. Len(patches) : c = patches[k].id
  <2>1. Len([k \in 1 .. Len(patches) |-> patches[k].id]) = Len(patches)
    BY <1>3
  <2>2. QED
    BY <1>2, <2>1 DEF Callees
<1>5. ASSUME NEW k \in 1 .. Len(patches)
      PROVE  \E n \in 1 .. Len(f.body), j \in 1 .. Len(source.functions) :
               /\ f.body[n].op = "call" /\ f.body[n].name = Fun(j).name
               /\ patches[k].id = IdOf(j)
  <2> DEFINE n == patches[k].pos
  <2>1. /\ n \in 1 .. Len(code) /\ code[n].op = "call"
        /\ code[n].operand = patches[k].id
    BY <1>2 DEF PatchesAreCalls
  <2> HIDE DEF n
  <2>2. n \in 1 .. Len(f.body)
    BY <1>2, <1>3, <2>1
  <2>3. code[n] = CallCell(f.body[n]) /\ f.body[n].op = "call"
    BY <1>2, <2>1, <2>2 DEF ControlCell
  <2>4. ~ CallRefused(f.body[n])
    BY <1>2, <2>2, <2>3
  <2>5. \E j \in 1 .. Len(source.functions) :
          f.body[n].name = Fun(j).name /\ patches[k].id = IdOf(j)
    BY <2>1, <2>3, <2>4, PatchedCall
  <2>6. QED
    BY <2>2, <2>3, <2>5
<1>6. ASSUME NEW n \in 1 .. Len(f.body), NEW j \in 1 .. Len(source.functions),
             f.body[n].op = "call", f.body[n].name = Fun(j).name
      PROVE  \E k \in 1 .. Len(patches) : IdOf(j) = patches[k].id
  <2>1. symbols[f.body[n].name].scope = "script" /\ symbols[f.body[n].name].id = IdOf(j)
    BY <1>6, FunctionsBound DEF IdOf
  <2>2. code[n] = CallCell(f.body[n]) /\ n \in 1 .. Len(code)
    <3>1. ControlCell(f, n, code[n])
      BY <1>2
    <3>2. n \in 1 .. Len(code)
      BY <1>2, <1>3
    <3>3. QED
      BY <1>6, <3>1, <3>2 DEF ControlCell
  <2>3. code[n].op = "call" /\ code[n].operand = IdOf(j)
    BY <2>1, <2>2 DEF CallCell
  <2>4. PICK k \in 1 .. Len(patches) : patches[k].pos = n
    BY <1>2, <2>2, <2>3 DEF PatchesAreCalls
  <2>5. code[n].operand = patches[k].id
    BY <1>2, <2>4 DEF PatchesAreCalls
  <2>6. QED
    BY <2>3, <2>5
<1>7. ASSUME NEW c
      PROVE  c \in Callees(IdOf(i)) <=>
               \E n \in 1 .. Len(f.body), j \in 1 .. Len(source.functions) :
                 /\ f.body[n].op = "call" /\ f.body[n].name = Fun(j).name
                 /\ c = IdOf(j)
  <2>1. ASSUME c \in Callees(IdOf(i))
        PROVE  \E n \in 1 .. Len(f.body), j \in 1 .. Len(source.functions) :
                 /\ f.body[n].op = "call" /\ f.body[n].name = Fun(j).name
                 /\ c = IdOf(j)
    <3>1. PICK k \in 1 .. Len(patches) : c = patches[k].id
      BY <1>4, <2>1
    <3>2. QED
      BY <1>5, <3>1
  <2>2. ASSUME NEW n \in 1 .. Len(f.body), NEW j \in 1 .. Len(source.functions),
               f.body[n].op = "call", f.body[n].name = Fun(j).name, c = IdOf(j)
        PROVE  c \in Callees(IdOf(i))
    BY <1>4, <1>6, <2>2
  <2>3. QED
    BY <2>1, <2>2
<1>8. QED
  BY <1>7 DEF f

LEMMA AllCompiled ==
  ASSUME StageInv, SymbolsInv, BlocksInv, AllBound, Compiled = Len(source.functions)
  PROVE  /\ Blocks = { IdOf(i) : i \in 1 .. Len(source.functions) }
         /\ \A b \in Blocks : Callees(b) \subseteq Blocks
<1>1. Blocks = { IdOf(i) : i \in 1 .. Len(source.functions) }
  BY DEF BlocksInv, AllBound
<1>2. ASSUME NEW b \in Blocks, NEW c \in Callees(b)
      PROVE  c \in Blocks
  <2>1. PICK i \in 1 .. Compiled : b = IdOf(i)
    BY <1>1
  <2>2. \E j \in 1 .. Len(source.functions) : c = IdOf(j)
    BY <1>2, <2>1, CalleesAreFunctions
  <2>3. QED
    BY <1>1, <2>2
<1>3. QED
  BY <1>1, <1>2

LEMMA WalkStep ==
  ASSUME StageInv, SymbolsInv, BlocksInv, GraphInv, WalkInv, [Next]_vars
  PROVE  WalkInv'
<1> SUFFICES ASSUME stage' # "failed" PROVE WalkInv'
  BY DEF WalkInv
<1>1. /\ source' = source /\ Advances /\ Len(source.functions) \in Nat
      /\ stage \in Stages
  BY NextAdvances, SourceLists DEF StageInv
<1>2. stage # "failed"
  BY <1>1 DEF Advances, Goes, Counts, Fails, Stages
<1>3. stage \notin BeforeCompile => symbols' = symbols /\ EntryFunction' = EntryFunction
  BY SymbolsStay DEF BeforeCompile, RegisterDeclaration, RegisterFunction, EntryFunction
<1>4. stage \notin BeforeCompile =>
        /\ \E i \in 1 .. Len(source.functions) : Fun(i).name = EntryName
        /\ \E i \in 1 .. Len(source.functions) : Fun(i)'.name = EntryName
  BY <1>1, <1>2 DEF WalkInv, Fun
<1>5. CASE CompileFunction
  <2>1. stage = "compile" /\ stage' = "compile" /\ verdict' = verdict
    BY <1>5, CompiledBlock DEF AddBlock
  <2>2. QED
    BY <1>1, <1>4, <2>1 DEF WalkInv, BeforeCompile, BeforeAssemble
<1>6. CASE MarkFromEntry
  <2>1. /\ stage = "compile" /\ stage' = "mark" /\ BeginWalk(EntryFunction)
        /\ at > Len(source.functions)
    BY <1>6 DEF MarkFromEntry
  <2>2. AllBound /\ Compiled = Len(source.functions)
    BY <1>1, <2>1 DEF AllBound, BeforeCompile, Compiled, StageInv
  <2>3. EntryFunction \in Blocks
    BY <1>4, <2>1, <2>2, AllCompiled DEF EntryFunction, IdOf, BeforeCompile
  <2>4. verdict' = "walking" /\ entry' = EntryFunction
    BY <2>1, <2>3 DEF BeginWalk
  <2>5. QED
    BY <1>1, <1>3, <1>4, <2>1, <2>4 DEF WalkInv, BeforeCompile, BeforeAssemble
<1>7. CASE Mark
  <2>1. stage = "mark" /\ stage' = "mark" /\ Walk /\ entry' = entry
    BY <1>7 DEF Mark, Walk, Enter, Skip, ReportCycle, ReportUnknown, LeaveBlock
  <2>2. AllBound /\ Compiled = Len(source.functions)
    BY <2>1 DEF AllBound, BeforeCompile, Compiled
  <2>3. ~ ReportUnknown
    <3>1. SUFFICES ASSUME ReportUnknown PROVE FALSE
      OBVIOUS
    <3>2. verdict = "walking" /\ CallsLeft /\ Callee \notin Blocks
      BY <3>1 DEF ReportUnknown, AtCallTo
    <3>3. At.block \in Blocks /\ Callee \in Callees(At.block)
      <4>1. GraphTypeOK /\ CallsFollowed /\ path # << >>
        BY <3>2 DEF GraphInv, PathIsVisiting
      <4>2. QED
        BY <3>2, <4>1, CalleeOfLast, GraphTypes
    <3>4. QED
      BY <2>2, <3>2, <3>3, AllCompiled
  <2>4. verdict' \in {"walking", "marked", "cycle"}
    BY <2>1, <2>3 DEF Walk, Enter, Skip, ReportCycle, LeaveBlock, AtCallTo
  <2>5. QED
    BY <1>1, <1>2, <1>3, <1>4, <2>1, <2>4 DEF WalkInv, BeforeCompile, BeforeAssemble
<1>8. CASE FindEntry
  <2>1. stage = "functions" /\ stage' = "compile" /\ verdict' = verdict
        /\ \E i \in DOMAIN source.functions : source.functions[i].name = EntryName
    BY <1>8 DEF FindEntry, Failed, graphVars
  <2>2. \E i \in 1 .. Len(source.functions) : Fun(i)'.name = EntryName
    BY <1>1, <2>1, SourceLists DEF Fun, StageInv
  <2>3. QED
    BY <1>1, <2>1, <2>2 DEF WalkInv, BeforeCompile, BeforeAssemble
<1>9. CASE EndMark
  <2>1. /\ stage = "mark" /\ stage' = "assemble" /\ verdict = "marked"
        /\ verdict' = verdict /\ entry' = entry
    BY <1>9 DEF EndMark, Failed, graphVars
  <2>2. QED
    BY <1>1, <1>3, <1>4, <2>1 DEF WalkInv, BeforeCompile, BeforeAssemble
<1>10. CASE ~ CompileFunction /\ ~ MarkFromEntry /\ ~ Mark /\ ~ FindEntry /\ ~ EndMark
  <2>1. verdict' = verdict /\ entry' = entry
    BY <1>10, GraphVarsStay DEF graphVars
  <2>2. ~ Goes("functions", "compile") /\ ~ Goes("mark", "assemble")
        /\ ~ (stage = "compile" /\ stage' = "mark")
    BY <1>10, LoopsGoOn DEF Goes
  <2>3. /\ stage' \in BeforeCompile <=> stage \in BeforeCompile
        /\ stage' = "compile" <=> stage = "compile"
        /\ stage' \in BeforeAssemble <=> stage \in BeforeAssemble
        /\ stage' = "mark" <=> stage = "mark"
    BY <1>1, <1>2, <2>2 DEF Advances, Goes, Counts, Fails, BeforeCompile, BeforeAssemble
  <2>4. QED
    BY <1>1, <1>2, <1>3, <1>4, <2>1, <2>3 DEF WalkInv
<1>11. QED
  BY <1>5, <1>6, <1>7, <1>8, <1>9, <1>10

-----------------------------------------------------------------------------
(* Sizes and alignments.                                                   *)

LEMMA Aligned ==
  ASSUME NEW offset \in Nat, NEW alignment \in {1, 4, 8}
  PROVE  /\ AlignUp(offset, alignment) \in Nat
         /\ AlignUp(offset, alignment) % alignment = 0
         /\ offset <= AlignUp(offset, alignment)
<1>1. CASE alignment = 1
  BY <1>1 DEF AlignUp
<1>2. CASE alignment = 4
  BY <1>2 DEF AlignUp
<1>3. CASE alignment = 8
  BY <1>3 DEF AlignUp
<1>4. QED
  BY <1>1, <1>2, <1>3

LEMMA AlignedWrapping ==
  ASSUME NEW offset \in Nat, NEW alignment \in {1, 4, 8}
  PROVE  /\ AlignUpWrapping(offset, alignment) \in Nat
         /\ AlignUpWrapping(offset, alignment) % alignment = 0
         /\ Uint32(offset) \in Nat
<1>1. MaxOffset + 1 \in Nat /\ MaxOffset + 1 > 0
  <2>1. ByteBase \in Nat /\ ByteBase > 0
    BY LayoutAssumption
  <2>2. AddressSpace \in Nat /\ AddressSpace > 0
    BY <2>1 DEF AddressSpace
  <2> HIDE DEF AddressSpace
  <2>3. AddressSpace * ByteBase \in Nat /\ AddressSpace * ByteBase > 0
    BY <2>1, <2>2
  <2>4. QED
    BY <2>3 DEF MaxOffset
<1>2. \A n \in Nat : Uint32(n) \in Nat
  BY <1>1 DEF Uint32
<1>3. offset + alignment - 1 \in Nat
  OBVIOUS
<1> DEFINE sum == Uint32(offset + alignment - 1)
<1>4. sum \in Nat
  BY <1>2, <1>3
<1> HIDE DEF sum
<1>5. (sum \div alignment) * alignment \in Nat
      /\ ((sum \div alignment) * alignment) % alignment = 0
  <2>1. CASE alignment = 1
    BY <1>4, <2>1
  <2>2. CASE alignment = 4
    BY <1>4, <2>2
  <2>3. CASE alignment = 8
    BY <1>4, <2>3
  <2>4. QED
    BY <2>1, <2>2, <2>3
<1>6. QED
  BY <1>2, <1>5 DEF AlignUpWrapping, sum

LEMMA ArraysByStep ==
  ASSUME NEW base, NEW counts, Len(counts) \in Nat
  PROVE  LET made == Arrays(base, counts)
         IN  /\ made[0] = base
             /\ \A i \in 1 .. Len(counts) : made[i] = ArrayOf(made[i - 1], counts[i])
<1> DEFINE Is(f, m) == f = [i \in 0 .. m |-> IF i = 0 THEN base
                                             ELSE ArrayOf(f[i - 1], counts[i])]
           T == { m \in 0 .. Len(counts) : \E f : Is(f, m) }
<1>1. \E f : Is(f, 0)
  <2>1. Is([i \in 0 .. 0 |-> base], 0)
    OBVIOUS
  <2>2. QED
    BY <2>1, Zenon
<1>2. ASSUME NEW m \in 1 .. Len(counts), NEW f, Is(f, m - 1)
      PROVE  \E g : Is(g, m)
  <2> DEFINE g == [i \in 0 .. m |-> IF i = m THEN ArrayOf(f[m - 1], counts[m]) ELSE f[i]]
  <2>1. \A i \in 0 .. m - 1 : g[i] = f[i]
    OBVIOUS
  <2>2. \A i \in 0 .. m - 1 : f[i] = IF i = 0 THEN base ELSE ArrayOf(f[i - 1], counts[i])
    BY <1>2
  <2>3. \A i \in 0 .. m : g[i] = IF i = 0 THEN base ELSE ArrayOf(g[i - 1], counts[i])
    BY <2>1, <2>2
  <2>4. g = [i \in 0 .. m |-> IF i = 0 THEN base ELSE ArrayOf(g[i - 1], counts[i])]
    BY <2>3
  <2> HIDE DEF g
  <2>5. QED
    BY <2>4, Zenon
<1> HIDE DEF Is
<1>3. 0 \in T /\ \A m \in 1 .. Len(counts) : m - 1 \in T => m \in T
  BY <1>1, <1>2
<1>4. Len(counts) \in T
  <2> HIDE DEF T
  <2>1. 0 .. Len(counts) \subseteq T
    BY <1>3, CountingUp
  <2>2. QED
    BY <2>1
<1>5. Is(Arrays(base, counts), Len(counts))
  <2>1. \E f : Is(f, Len(counts))
    BY <1>4
  <2>2. Arrays(base, counts) = CHOOSE f : Is(f, Len(counts))
    BY Zenon DEF Arrays, Is
  <2>3. QED
    BY <2>1, <2>2, Zenon
<1>6. QED
  BY <1>5 DEF Is

LEMMA EndsByStep ==
  ASSUME NEW list, Len(list) \in Nat
  PROVE  LET end == Ends(list)
         IN  /\ end[0] = 0
             /\ \A i \in 1 .. Len(list) :
                  end[i] = AlignUp(end[i - 1], list[i].alignment) + list[i].size
<1> DEFINE Is(f, m) == f = [i \in 0 .. m |->
                              IF i = 0 THEN 0
                              ELSE AlignUp(f[i - 1], list[i].alignment) + list[i].size]
           T == { m \in 0 .. Len(list) : \E f : Is(f, m) }
<1>1. \E f : Is(f, 0)
  <2>1. Is([i \in 0 .. 0 |-> 0], 0)
    OBVIOUS
  <2>2. QED
    BY <2>1, Zenon
<1>2. ASSUME NEW m \in 1 .. Len(list), NEW f, Is(f, m - 1)
      PROVE  \E g : Is(g, m)
  <2> DEFINE g == [i \in 0 .. m |->
                     IF i = m THEN AlignUp(f[m - 1], list[m].alignment) + list[m].size
                     ELSE f[i]]
  <2>1. \A i \in 0 .. m - 1 : g[i] = f[i]
    OBVIOUS
  <2>2. \A i \in 0 .. m - 1 :
          f[i] = IF i = 0 THEN 0 ELSE AlignUp(f[i - 1], list[i].alignment) + list[i].size
    BY <1>2
  <2>3. \A i \in 0 .. m :
          g[i] = IF i = 0 THEN 0 ELSE AlignUp(g[i - 1], list[i].alignment) + list[i].size
    BY <2>1, <2>2
  <2>4. g = [i \in 0 .. m |->
               IF i = 0 THEN 0 ELSE AlignUp(g[i - 1], list[i].alignment) + list[i].size]
    BY <2>3
  <2> HIDE DEF g
  <2>5. QED
    BY <2>4, Zenon
<1> HIDE DEF Is
<1>3. 0 \in T /\ \A m \in 1 .. Len(list) : m - 1 \in T => m \in T
  BY <1>1, <1>2
<1>4. Len(list) \in T
  <2> HIDE DEF T
  <2>1. 0 .. Len(list) \subseteq T
    BY <1>3, CountingUp
  <2>2. QED
    BY <2>1
<1>5. Is(Ends(list), Len(list))
  <2>1. \E f : Is(f, Len(list))
    BY <1>4
  <2>2. Ends(list) = CHOOSE f : Is(f, Len(list))
    BY Zenon DEF Ends, Is
  <2>3. QED
    BY <2>1, <2>2, Zenon
<1>6. QED
  BY <1>5 DEF Is

(* Values laid one after another lie at aligned places, none in another.   *)
LEMMA LaidInOrder ==
  ASSUME NEW list, Len(list) \in Nat,
         \A i \in 1 .. Len(list) : IsDescriptor(list[i])
  PROVE  LET laid == Laid(list)
         IN  /\ laid.size \in Nat
             /\ laid.offsets = [i \in 1 .. Len(list) |-> laid.offsets[i]]
             /\ \A i \in 1 .. Len(list) :
                  /\ laid.offsets[i] \in Nat
                  /\ laid.offsets[i] % list[i].alignment = 0
                  /\ laid.offsets[i] + list[i].size <= laid.size
             /\ \A i \in 1 .. Len(list) - 1 :
                  laid.offsets[i] + list[i].size <= laid.offsets[i + 1]
<1> DEFINE end == Ends(list)
           offsets == Laid(list).offsets
           T == { i \in 0 .. Len(list) : end[i] \in Nat }
<1>1. /\ end[0] = 0
      /\ \A i \in 1 .. Len(list) :
           end[i] = AlignUp(end[i - 1], list[i].alignment) + list[i].size
  BY EndsByStep
<1> HIDE DEF end
<1>2. ASSUME NEW i \in 1 .. Len(list), end[i - 1] \in Nat
      PROVE  /\ AlignUp(end[i - 1], list[i].alignment) \in Nat
             /\ AlignUp(end[i - 1], list[i].alignment) % list[i].alignment = 0
             /\ end[i - 1] <= AlignUp(end[i - 1], list[i].alignment)
             /\ end[i] \in Nat
  <2>1. list[i].size \in Nat /\ list[i].alignment \in {1, 4, 8}
    BY DEF IsDescriptor
  <2>2. /\ AlignUp(end[i - 1], list[i].alignment) \in Nat
        /\ AlignUp(end[i - 1], list[i].alignment) % list[i].alignment = 0
        /\ end[i - 1] <= AlignUp(end[i - 1], list[i].alignment)
    BY <1>2, <2>1, Aligned
  <2> DEFINE start == AlignUp(end[i - 1], list[i].alignment)
  <2>3. start \in Nat /\ end[i] = start + list[i].size
    BY <1>1, <2>2
  <2> HIDE DEF start
  <2>4. end[i] \in Nat
    BY <2>1, <2>3
  <2>5. QED
    BY <2>2, <2>4
<1>3. 0 \in T /\ \A i \in 1 .. Len(list) : i - 1 \in T => i \in T
  BY <1>1, <1>2
<1>4. 0 .. Len(list) \subseteq T
  <2> HIDE DEF T
  <2>1. QED
    BY <1>3, CountingUp
<1>5. \A i \in 0 .. Len(list) : end[i] \in Nat
  BY <1>4
<1>6. /\ Laid(list).size = end[Len(list)]
      /\ offsets = [i \in 1 .. Len(list) |-> AlignUp(end[i - 1], list[i].alignment)]
  BY DEF Laid, end
<1> HIDE DEF offsets
<1>7. \A i \in 1 .. Len(list) :
        /\ offsets[i] \in Nat /\ offsets[i] % list[i].alignment = 0
        /\ end[i - 1] <= offsets[i]
        /\ offsets[i] + list[i].size = end[i]
  BY <1>1, <1>2, <1>5, <1>6
<1>8. ASSUME NEW n \in 0 .. Len(list)
      PROVE  end[n] <= end[Len(list)]
  <2> DEFINE U == { i \in 0 .. Len(list) : i < n \/ end[n] <= end[i] }
  <2>1. 0 \in U
    BY <1>5
  <2>2. ASSUME NEW i \in 1 .. Len(list), i - 1 \in U
        PROVE  i \in U
    <3>1. list[i].size \in Nat
      BY DEF IsDescriptor
    <3>2. end[i - 1] \in Nat /\ end[i] \in Nat /\ end[n] \in Nat /\ end[i - 1] <= end[i]
      <4>1. end[i - 1] \in Nat /\ end[i] \in Nat /\ end[n] \in Nat
        BY <1>5
      <4>2. /\ offsets[i] \in Nat /\ end[i - 1] <= offsets[i]
            /\ offsets[i] + list[i].size = end[i]
        BY <1>7
      <4>3. QED
        BY <3>1, <4>1, <4>2
    <3>3. CASE i < n
      BY <3>3
    <3>4. CASE i = n
      BY <3>2, <3>4
    <3>5. CASE i > n
      BY <2>2, <3>2, <3>5
    <3>6. QED
      BY <3>3, <3>4, <3>5
  <2>3. 0 .. Len(list) \subseteq U
    <3> HIDE DEF U
    <3>1. QED
      BY <2>1, <2>2, CountingUp
  <2>4. QED
    BY <2>3
<1>9. \A i \in 1 .. Len(list) : offsets[i] + list[i].size <= end[Len(list)]
  BY <1>7, <1>8
<1>10. \A i \in 1 .. Len(list) - 1 : offsets[i] + list[i].size <= offsets[i + 1]
  BY <1>7
<1>11. offsets = [i \in 1 .. Len(list) |-> offsets[i]]
  BY <1>6
<1>12. end[Len(list)] \in Nat
  BY <1>5
<1>13. QED
  BY <1>6, <1>7, <1>9, <1>10, <1>11, <1>12 DEF offsets

LEMMA WrittenTypes ==
  ASSUME \A name \in DOMAIN types : IsDescriptor(types[name]),
         NEW written, written.name \in DOMAIN types, written.counts \in Seq(Nat)
  PROVE  IsDescriptor(TypeOf(written))
<1> DEFINE base == types[written.name]
           counts == written.counts
           made == Arrays(base, counts)
           T == { i \in 0 .. Len(counts) : IsDescriptor(made[i]) }
<1>1. Len(counts) \in Nat /\ \A i \in 1 .. Len(counts) : counts[i] \in Nat
  OBVIOUS
<1>2. made[0] = base /\ \A i \in 1 .. Len(counts) : made[i] = ArrayOf(made[i - 1], counts[i])
  BY <1>1, ArraysByStep
<1>3. IsDescriptor(base)
  OBVIOUS
<1> HIDE DEF base, counts, made
<1>4. \A type, n : IsDescriptor(type) /\ n \in Nat => IsDescriptor(ArrayOf(type, n))
  BY DEF IsDescriptor, ArrayOf
<1>5. 0 \in T /\ \A i \in 1 .. Len(counts) : i - 1 \in T => i \in T
  BY <1>1, <1>2, <1>3, <1>4
<1> HIDE DEF T
<1>6. 0 .. Len(counts) \subseteq T
  BY <1>1, <1>5, CountingUp
<1>7. Len(counts) \in T
  BY <1>1, <1>6
<1>8. QED
  BY <1>7 DEF T, TypeOf, made, base, counts

LEMMA StructTypes ==
  ASSUME \A name \in DOMAIN types : IsDescriptor(types[name]),
         NEW fields, IsList(fields), FieldsAccepted(fields),
         \A field \in Range(fields) : field.type.counts \in Seq(Nat)
  PROVE  IsDescriptor(StructOf(fields))
<1> DEFINE list == [i \in DOMAIN fields |-> TypeOf(fields[i].type)]
           laid == Laid(list)
           S == {1} \cup { list[i].alignment : i \in DOMAIN list }
           alignment == Max(S)
<1>1. /\ DOMAIN fields = 1 .. Len(fields) /\ Len(fields) \in Nat
      /\ \A i \in 1 .. Len(fields) : fields[i] \in Range(fields)
  BY Lists
<1>2. \A i \in 1 .. Len(fields) : IsDescriptor(TypeOf(fields[i].type))
  <2>1. \A i \in 1 .. Len(fields) :
          fields[i].type.name \in DOMAIN types /\ fields[i].type.counts \in Seq(Nat)
    BY <1>1 DEF FieldsAccepted, TypeAccepted
  <2>2. QED
    BY <2>1, WrittenTypes
<1>3. /\ DOMAIN list = 1 .. Len(fields) /\ Len(list) = Len(fields)
      /\ \A i \in 1 .. Len(fields) : IsDescriptor(list[i])
  BY <1>1, <1>2
<1> HIDE DEF list
<1>4. laid.size \in Nat
  BY <1>1, <1>3, LaidInOrder
<1>5. S \subseteq {1, 4, 8} /\ 1 \in S
  BY <1>3 DEF IsDescriptor
<1>6. alignment \in {1, 4, 8}
  <2> HIDE DEF S
  <2>1. \E x \in S : \A y \in S : x >= y
    <3>1. CASE 8 \in S
      BY <1>5, <3>1
    <3>2. CASE 8 \notin S /\ 4 \in S
      BY <1>5, <3>2
    <3>3. CASE 8 \notin S /\ 4 \notin S
      BY <1>5, <3>3
    <3>4. QED
      BY <3>1, <3>2, <3>3
  <2>2. alignment \in S
    BY <2>1 DEF Max
  <2>3. QED
    BY <1>5, <2>2
<1> HIDE DEF laid, alignment
<1>7. Rounded(laid.size, alignment) \in Nat
  BY <1>4, <1>6, Aligned DEF Rounded
<1>8. StructOf(fields).size = Rounded(laid.size, alignment)
      /\ StructOf(fields).alignment = alignment
  BY DEF StructOf, list, laid, alignment
<1>9. QED
  BY <1>6, <1>7, <1>8 DEF IsDescriptor

LEMMA PlacesStay ==
  ASSUME [Next]_vars, ~ RegisterDeclaration
  PROVE  places' = places /\ sizes' = sizes
<1>1. CASE ReadStruct
  BY <1>1 DEF ReadStruct, DeclareStruct, layoutVars
<1>2. CASE InitializeGlobal
  BY <1>2 DEF InitializeGlobal, Initialize, layoutVars
<1>3. CASE CompileFunction
  BY <1>3 DEF CompileFunction, Intern, layoutVars
<1>4. CASE ReadVariables \/ EndDeclarations
  BY <1>4 DEF ReadVariables, EndDeclarations, layoutVars
<1>5. CASE RegisterFunction \/ FindEntry
  BY <1>5 DEF RegisterFunction, FindEntry, layoutVars
<1>6. CASE MarkFromEntry \/ Mark \/ EndMark
  BY <1>6 DEF MarkFromEntry, Mark, EndMark, layoutVars
<1>7. CASE AssembleBlock \/ EndAssembly
  BY <1>7 DEF AssembleBlock, EndAssembly, layoutVars
<1>8. CASE LinkVariable \/ EndVariables \/ LinkExterns
  BY <1>8 DEF LinkVariable, EndVariables, LinkExterns, layoutVars
<1>9. CASE LinkFunction \/ EndTables
  BY <1>9 DEF LinkFunction, EndTables, layoutVars
<1>10. CASE PatchCall \/ EndLink
  BY <1>10 DEF PatchCall, EndLink, layoutVars
<1>11. CASE UNCHANGED vars
  BY <1>11 DEF vars, layoutVars
<1>12. QED
  BY <1>1, <1>2, <1>3, <1>4, <1>5, <1>6, <1>7, <1>8, <1>9, <1>10, <1>11 DEF Next

LEMMA AppendToList ==
  ASSUME NEW list, IsList(list), NEW item
  PROVE  LET longer == Append(list, item)
         IN  /\ IsList(longer) /\ Len(longer) = Len(list) + 1
             /\ \A i \in 1 .. Len(list) : longer[i] = list[i]
             /\ longer[Len(list) + 1] = item
<1>1. list \in Seq(Range(list) \cup {item})
  BY SeqMonotonic DEF IsList
<1>2. /\ Append(list, item) \in Seq(Range(list) \cup {item})
      /\ Len(Append(list, item)) = Len(list) + 1
      /\ \A i \in 1 .. Len(list) : Append(list, item)[i] = list[i]
      /\ Append(list, item)[Len(list) + 1] = item
  BY <1>1, AppendProperties
<1>3. QED
  BY <1>2, ListIsSeq

(* A global goes to the next place that suits it. *)
LEMMA PlacesStep ==
  ASSUME StageInv, LayoutInv, [Next]_vars, stage' # "failed", stage # "failed"
  PROVE  PlacesInv'
<1>1. PlacesInv /\ TypesInv
  BY DEF LayoutInv
<1>2. CASE RegisterDeclaration /\ source.decls[at].kind = "variable"
  <2> DEFINE d == source.decls[at]
             type == TypeOf(d.type)
             segment == SegmentOf(d)
             offset == AlignUpWrapping(EndOf(segment), type.alignment)
             place == [name |-> d.name, type |-> type, offset |-> offset]
  <2>1. stage = "register" /\ at \in 1 .. Len(source.decls) /\ PlaceVariable(d)
    BY <1>2 DEF RegisterDeclaration, RegisterVariable, Failed, StageInv
  <2>2. d \in Variables
    BY <1>2, <2>1, SourceLists DEF StageInv, Variables, Range
  <2>3. d.type.name \in DOMAIN types
    BY <2>1, <2>2 DEF LayoutInv, VariableAccepted, TypeAccepted
  <2>4. d.type.counts \in Seq(Nat)
    BY <1>2, <2>2, SourceLists DEF StageInv, IsSource, Variables
  <2>5. type.size \in Nat /\ type.alignment \in {1, 4, 8}
    BY <1>1, <2>3, <2>4, WrittenTypes DEF TypesInv, IsDescriptor
  <2>6. segment \in Segments
    BY DEF SegmentOf, Segments
  <2>7. /\ places' = [places EXCEPT ![segment] = Append(@, place)]
        /\ sizes' = IF segment = "const" THEN sizes
                    ELSE [sizes EXCEPT ![segment] = Uint32(offset + type.size)]
    BY <2>1 DEF PlaceVariable
  <2> HIDE DEF d, type, segment, place
  <2>8. CASE segment = "extern"
    <3>1. offset \in Nat /\ offset % type.alignment = 0
      BY <1>1, <2>5, <2>8, AlignedWrapping DEF PlacesInv, EndOf
    <3> HIDE DEF offset
    <3>2. Uint32(offset + type.size) \in Nat
      <4>1. offset + type.size \in Nat /\ 1 \in {1, 4, 8}
        BY <2>5, <3>1
      <4>2. QED
        BY <4>1, AlignedWrapping
    <3>3. /\ DOMAIN places' = Segments /\ DOMAIN sizes' = Segments \ {"const"}
          /\ places'["extern"] = Append(places["extern"], place)
          /\ sizes'["extern"] = Uint32(offset + type.size)
      BY <1>1, <2>7, <2>8 DEF PlacesInv, Segments
    <3>4. /\ IsList(places'["extern"])
          /\ Len(places'["extern"]) = Len(places["extern"]) + 1
          /\ \A i \in 1 .. Len(places["extern"]) : places'["extern"][i] = places["extern"][i]
          /\ places'["extern"][Len(places["extern"]) + 1] = place
      BY <1>1, <3>3, AppendToList DEF PlacesInv
    <3>5. Len(places["extern"]) \in Nat
      BY <1>1, Lists DEF PlacesInv
    <3>6. place.offset % place.type.alignment = 0
      BY <3>1 DEF place, offset
    <3>7. ASSUME NEW i \in 1 .. Len(places'["extern"])
          PROVE  places'["extern"][i].offset % places'["extern"][i].type.alignment = 0
      <4>1. CASE i \in 1 .. Len(places["extern"])
        BY <1>1, <3>4, <4>1 DEF PlacesInv
      <4>2. CASE i = Len(places["extern"]) + 1
        BY <3>4, <3>6, <4>2
      <4>3. QED
        BY <3>4, <3>5, <4>1, <4>2
    <3>8. QED
      BY <3>2, <3>3, <3>4, <3>7 DEF PlacesInv
  <2>9. CASE segment # "extern"
    <3>1. /\ DOMAIN places' = Segments /\ DOMAIN sizes' = Segments \ {"const"}
          /\ places'["extern"] = places["extern"]
          /\ sizes'["extern"] = sizes["extern"]
      BY <1>1, <2>6, <2>7, <2>9 DEF PlacesInv, Segments
    <3>2. QED
      BY <1>1, <3>1 DEF PlacesInv
  <2>10. QED
    BY <2>8, <2>9
<1>3. CASE RegisterDeclaration /\ source.decls[at].kind # "variable"
  <2>1. UNCHANGED << places, sizes >>
    BY <1>3 DEF RegisterDeclaration, RegisterExtern, layoutVars
  <2>2. QED
    BY <1>1, <2>1 DEF PlacesInv
<1>4. CASE ~ RegisterDeclaration
  BY <1>1, <1>4, PlacesStay DEF PlacesInv
<1>5. QED
  BY <1>2, <1>3, <1>4

LEMMA StructsOnly ==
  ASSUME [Next]_vars, stage = "structs"
  PROVE  ReadStruct \/ ReadVariables \/ UNCHANGED vars
BY DEF Next, RegisterDeclaration, EndDeclarations, InitializeGlobal, RegisterFunction,
       FindEntry, CompileFunction, MarkFromEntry, Mark, EndMark, AssembleBlock,
       EndAssembly, LinkVariable, EndVariables, LinkExterns, LinkFunction,
       EndTables, PatchCall, EndLink

LEMMA SameAccepted ==
  ASSUME types' = types
  PROVE  \A d : VariableAccepted(d)' <=> VariableAccepted(d)
<1>1. \A written : TypeOf(written)' = TypeOf(written)
  BY DEF TypeOf
<1>2. \A written : TypeAccepted(written)' <=> TypeAccepted(written)
  BY <1>1 DEF TypeAccepted
<1>3. QED
  BY <1>2 DEF VariableAccepted

LEMMA TypesStep ==
  ASSUME StageInv, LayoutInv, [Next]_vars, stage' # "failed", stage # "failed"
  PROVE  TypesInv'
<1>1. source' = source /\ Advances /\ Len(source.structs) \in Nat
  BY NextAdvances, SourceLists DEF StageInv
<1>2. TypesInv
  BY DEF LayoutInv
<1>3. CASE ReadStruct
  <2>0. PICK n : n = at
    OBVIOUS
  <2> DEFINE struct == source.structs[n]
  <2>1. /\ stage = "structs" /\ stage' = "structs" /\ at' = n + 1
        /\ n \in 1 .. Len(source.structs) /\ DeclareStruct(struct)
    BY <1>3, <2>0 DEF ReadStruct, Failed, StageInv
  <2>2. StructsRead = n - 1 /\ StructsRead' = n /\ n \in Nat
    BY <2>0, <2>1 DEF StructsRead
  <2>3. /\ IsList(struct.fields)
        /\ \A field \in Range(struct.fields) : field.type.counts \in Seq(Nat)
    <3>1. struct \in Range(source.structs)
      BY <2>1, SourceLists, Lists DEF StageInv, IsSource
    <3>2. QED
      BY <3>1, SourceLists DEF StageInv, IsSource
  <2>4. struct.name \notin DOMAIN types /\ FieldsAccepted(struct.fields)
    BY <2>1 DEF DeclareStruct, StructAccepted
  <2>5. IsDescriptor(StructOf(struct.fields))
    BY <1>2, <2>3, <2>4, StructTypes DEF TypesInv
  <2>6. types' = [name \in DOMAIN types \cup {struct.name} |->
                    IF name = struct.name THEN StructOf(struct.fields) ELSE types[name]]
    BY <2>1 DEF DeclareStruct
  <2>7. \A name \in DOMAIN types' : IsDescriptor(types'[name])
    BY <1>2, <2>5, <2>6 DEF TypesInv
  <2>8. DOMAIN types' = DOMAIN SizeOf \cup { source.structs[i].name : i \in 1 .. n }
    <3>1. DOMAIN types' = DOMAIN types \cup {struct.name}
      BY <2>6
    <3>2. DOMAIN types = DOMAIN SizeOf \cup { source.structs[i].name : i \in 1 .. n - 1 }
      BY <1>2, <2>2 DEF TypesInv
    <3>3. 1 .. n = (1 .. n - 1) \cup {n}
      BY <2>1
    <3>4. QED
      BY <3>1, <3>2, <3>3
  <2>9. QED
    BY <1>1, <2>2, <2>7, <2>8 DEF TypesInv
<1>4. CASE ~ ReadStruct
  <2>1. types' = types
    <3>1. CASE stage # "structs"
      BY <3>1, TypesStay
    <3>2. CASE ReadVariables
      BY <3>2 DEF ReadVariables, layoutVars
    <3>3. CASE stage = "structs" /\ ~ ReadVariables
      BY <1>4, <3>3, StructsOnly DEF vars, layoutVars
    <3>4. QED
      BY <3>1, <3>2, <3>3
  <2>2. ~ Counts("structs")
    BY <1>4, StructsOnly DEF Counts, vars, ReadVariables, StageInv
  <2>3. StructsRead' = StructsRead
    BY <1>1, <2>2 DEF Advances, Goes, Counts, Fails, StructsRead, StageInv
  <2>4. QED
    BY <1>1, <1>2, <2>1, <2>3 DEF TypesInv
<1>5. QED
  BY <1>3, <1>4

LEMMA LayoutStep ==
  ASSUME StageInv, LayoutInv, [Next]_vars
  PROVE  LayoutInv'
<1> SUFFICES ASSUME stage' # "failed" PROVE LayoutInv'
  BY DEF LayoutInv
<1>1. /\ source' = source /\ Advances /\ stage \in Stages
      /\ Len(source.structs) \in Nat
  BY NextAdvances, SourceLists DEF StageInv
<1>2. stage # "failed"
  BY <1>1 DEF Advances, Goes, Counts, Fails, Stages
<1>3. TypesInv' /\ PlacesInv'
  BY <1>2, TypesStep, PlacesStep
<1>4. stage' # "structs" => \A d \in Variables' : VariableAccepted(d)'
  <2>1. Variables' = Variables
    BY <1>1 DEF Variables
  <2>2. CASE stage = "structs" /\ stage' # "structs"
    <3>1. ReadVariables
      BY <2>2, StructsOnly DEF vars, ReadStruct, Failed
    <3>2. types' = types /\ \A d \in Variables : VariableAccepted(d)
      BY <3>1 DEF ReadVariables, Failed, layoutVars
    <3>3. QED
      BY <2>1, <3>2, SameAccepted
  <2>3. CASE stage # "structs"
    <3>1. types' = types /\ \A d \in Variables : VariableAccepted(d)
      BY <1>2, <2>3, TypesStay DEF LayoutInv
    <3>2. QED
      BY <2>1, <3>1, SameAccepted
  <2>4. QED
    BY <2>2, <2>3
<1>5. QED
  BY <1>2, <1>3, <1>4 DEF LayoutInv

-----------------------------------------------------------------------------
(* The frames of the functions, and the kept blocks in the text.           *)

LEMMA ConcatSeqs ==
  ASSUME NEW S, NEW a \in Seq(S), NEW b \in Seq(S)
  PROVE  LET both == a \o b
         IN  /\ both \in Seq(S) /\ Len(both) = Len(a) + Len(b)
             /\ \A i \in 1 .. Len(a) : both[i] = a[i]
             /\ \A i \in 1 .. Len(b) : both[Len(a) + i] = b[i]
OBVIOUS

LEMMA ConcatLists ==
  ASSUME NEW a, NEW b, IsList(a), IsList(b)
  PROVE  LET both == a \o b
         IN  /\ IsList(both) /\ Len(both) = Len(a) + Len(b)
             /\ \A i \in 1 .. Len(a) : both[i] = a[i]
             /\ \A i \in 1 .. Len(b) : both[Len(a) + i] = b[i]
<1> DEFINE S == Range(a) \cup Range(b)
<1>1. a \in Seq(S) /\ b \in Seq(S)
  BY SeqMonotonic DEF IsList
<1> HIDE DEF S
<1>2. /\ a \o b \in Seq(S) /\ Len(a \o b) = Len(a) + Len(b)
      /\ \A i \in 1 .. Len(a) : (a \o b)[i] = a[i]
      /\ \A i \in 1 .. Len(b) : (a \o b)[Len(a) + i] = b[i]
  BY <1>1, ConcatSeqs
<1>3. QED
  BY <1>2, ListIsSeq

LEMMA FrameIsLaid ==
  ASSUME StageInv, LayoutInv, stage \notin {"structs", "failed"},
         NEW i \in 1 .. Len(source.functions)
  PROVE  LET f == Fun(i)
             layout == FrameLayout(ParamTypes(f.params) \o f.locals)
         IN  /\ Len(f.params) \in Nat
             /\ layout.size \in Nat
             /\ \A m \in 1 .. Len(f.params) :
                  LET type == types[f.params[m].type]
                  IN  /\ layout.offsets[m] % type.alignment = 0
                      /\ layout.offsets[m] + type.size <= layout.size
                      /\ m < Len(f.params) =>
                           layout.offsets[m] + type.size <= layout.offsets[m + 1]
             /\ LET slice == SubSeq(layout.offsets, 1, Len(f.params))
                IN  /\ IsList(slice) /\ Len(slice) = Len(f.params)
                    /\ \A m \in 1 .. Len(f.params) : slice[m] = layout.offsets[m]
<1> DEFINE f == Fun(i)
           params == f.params
           names == ParamTypes(params) \o f.locals
           list == [m \in DOMAIN names |-> types[names[m]]]
           layout == FrameLayout(names)
           T == { p.type : p \in Range(params) } \cup Range(f.locals)
<1>1. IsList(params) /\ IsList(f.locals) /\ f \in Range(source.functions)
  BY FunctionLists
<1>2. /\ Len(params) \in Nat /\ DOMAIN params = 1 .. Len(params)
      /\ Len(f.locals) \in Nat
      /\ \A m \in 1 .. Len(params) : params[m] \in Range(params)
      /\ f.locals \in Seq(Range(f.locals))
  BY <1>1, Lists DEF IsList
<1>3. T \subseteq DOMAIN types
  <2>1. StructsRead = Len(source.structs) /\ TypesInv
    BY DEF StructsRead, LayoutInv
  <2>2. T \subseteq DOMAIN SizeOf \cup { struct.name : struct \in Range(source.structs) }
    BY <1>1, SourceLists DEF StageInv, IsSource
  <2>3. DOMAIN source.structs = 1 .. Len(source.structs)
    BY SourceLists, Lists DEF StageInv, IsSource
  <2>4. { struct.name : struct \in Range(source.structs) }
          = { source.structs[n].name : n \in 1 .. Len(source.structs) }
    BY <2>3 DEF Range
  <2>5. QED
    BY <2>1, <2>2, <2>4 DEF TypesInv
<1> HIDE DEF f
<1>4. ParamTypes(params) \in Seq(T) /\ Len(ParamTypes(params)) = Len(params)
      /\ \A m \in 1 .. Len(params) : ParamTypes(params)[m] = params[m].type
  <2>1. ParamTypes(params) = [m \in 1 .. Len(params) |-> params[m].type]
    BY <1>2 DEF ParamTypes
  <2>2. \A m \in 1 .. Len(params) : params[m].type \in T
    BY <1>2
  <2> HIDE DEF T
  <2>3. QED
    BY <1>2, <2>1, <2>2
<1>5. f.locals \in Seq(T)
  BY <1>2, SeqMonotonic
<1> HIDE DEF T
<1>6. /\ names \in Seq(T) /\ Len(names) = Len(params) + Len(f.locals)
      /\ \A m \in 1 .. Len(params) : names[m] = params[m].type
  <2> DEFINE kinds == ParamTypes(params)
             locals == f.locals
  <2>1. kinds \in Seq(T) /\ locals \in Seq(T)
    BY <1>4, <1>5
  <2>2. /\ kinds \o locals \in Seq(T) /\ Len(kinds \o locals) = Len(kinds) + Len(locals)
        /\ \A m \in 1 .. Len(kinds) : (kinds \o locals)[m] = kinds[m]
    <3> HIDE DEF kinds, locals
    <3>1. QED
      BY <2>1, ConcatSeqs
  <2>3. QED
    BY <1>4, <2>2
<1> HIDE DEF names
<1>7. /\ DOMAIN names = 1 .. Len(names) /\ Len(names) \in Nat
      /\ \A m \in 1 .. Len(names) : names[m] \in T
  <2>1. names \in Seq(T)
    BY <1>6
  <2>2. QED
    BY <2>1, LenProperties, ElementOfSeq
<1>14. Len(names) \in Nat /\ Len(params) <= Len(names)
  <2> DEFINE locals == Len(f.locals)
  <2>1. locals \in Nat /\ Len(names) = Len(params) + locals
    BY <1>2, <1>6
  <2> HIDE DEF locals
  <2>2. QED
    BY <1>2, <2>1
<1>8. /\ Len(list) = Len(names)
      /\ \A m \in 1 .. Len(names) : list[m] = types[names[m]] /\ IsDescriptor(list[m])
  BY <1>3, <1>7 DEF LayoutInv, TypesInv
<1>9. layout = Laid(list)
  BY DEF FrameLayout
<1> HIDE DEF list, layout
<1>10. /\ layout.size \in Nat
       /\ layout.offsets = [m \in 1 .. Len(names) |-> layout.offsets[m]]
       /\ \A m \in 1 .. Len(names) :
            /\ layout.offsets[m] \in Nat
            /\ layout.offsets[m] % list[m].alignment = 0
            /\ layout.offsets[m] + list[m].size <= layout.size
       /\ \A m \in 1 .. Len(names) - 1 :
            layout.offsets[m] + list[m].size <= layout.offsets[m + 1]
  BY <1>7, <1>8, <1>9, LaidInOrder
<1>11. ASSUME NEW m \in 1 .. Len(params)
       PROVE  LET type == types[params[m].type]
              IN  /\ layout.offsets[m] % type.alignment = 0
                  /\ layout.offsets[m] + type.size <= layout.size
                  /\ m < Len(params) =>
                       layout.offsets[m] + type.size <= layout.offsets[m + 1]
  <2>2. m \in 1 .. Len(names) /\ (m < Len(params) => m \in 1 .. Len(names) - 1)
    BY <1>2, <1>14
  <2>3. names[m] = params[m].type
    BY <1>6
  <2>4. list[m] = types[params[m].type]
    BY <1>8, <2>2, <2>3
  <2>5. QED
    BY <1>10, <2>2, <2>4
<1>12. LET slice == SubSeq(layout.offsets, 1, Len(params))
       IN  /\ IsList(slice) /\ Len(slice) = Len(params)
           /\ \A m \in 1 .. Len(params) : slice[m] = layout.offsets[m]
  <2> DEFINE offsets == layout.offsets
  <2>1. offsets \in Seq(Nat) /\ Len(offsets) = Len(names)
    BY <1>7, <1>10
  <2> HIDE DEF offsets
  <2>2. /\ SubSeq(offsets, 1, Len(params)) \in Seq(Nat)
        /\ Len(SubSeq(offsets, 1, Len(params))) = Len(params)
        /\ \A m \in 1 .. Len(params) : SubSeq(offsets, 1, Len(params))[m] = offsets[m]
    BY <1>2, <1>14, <2>1
  <2>3. QED
    BY <2>2, ListIsSeq DEF offsets
<1>13. QED
  BY <1>2, <1>10, <1>11, <1>12 DEF f, layout, names

LEMMA AssemblyStays ==
  ASSUME [Next]_vars, ~ AssembleBlock
  PROVE  program' = program
<1>1. CASE ReadStruct \/ ReadVariables
  BY <1>1 DEF ReadStruct, ReadVariables
<1>2. CASE RegisterDeclaration \/ EndDeclarations
  BY <1>2 DEF RegisterDeclaration, EndDeclarations
<1>3. CASE InitializeGlobal
  BY <1>3 DEF InitializeGlobal
<1>4. CASE RegisterFunction \/ FindEntry
  BY <1>4 DEF RegisterFunction, FindEntry
<1>5. CASE CompileFunction
  BY <1>5 DEF CompileFunction
<1>6. CASE MarkFromEntry \/ Mark \/ EndMark
  BY <1>6 DEF MarkFromEntry, Mark, EndMark
<1>7. CASE EndAssembly
  BY <1>7 DEF EndAssembly
<1>8. CASE LinkVariable \/ EndVariables \/ LinkExterns
  BY <1>8 DEF LinkVariable, EndVariables, LinkExterns
<1>9. CASE LinkFunction \/ EndTables
  BY <1>9 DEF LinkFunction, EndTables
<1>10. CASE PatchCall \/ EndLink
  BY <1>10 DEF PatchCall, EndLink
<1>11. CASE UNCHANGED vars
  BY <1>11 DEF vars
<1>12. QED
  BY <1>1, <1>2, <1>3, <1>4, <1>5, <1>6, <1>7, <1>8, <1>9, <1>10, <1>11 DEF Next

LEMMA AssembleCounts ==
  ASSUME StageInv, [Next]_vars, ~ AssembleBlock
  PROVE  ~ Counts("assemble")
<1> SUFFICES ASSUME stage = "assemble", stage' = "assemble", at' = at + 1, at \in Nat
             PROVE  FALSE
  BY DEF Counts, StageInv
<1>1. CASE UNCHANGED vars
  BY <1>1 DEF vars
<1>2. QED
  BY <1>1
     DEF Next, ReadStruct, ReadVariables, RegisterDeclaration, EndDeclarations,
         InitializeGlobal, RegisterFunction, FindEntry, CompileFunction, MarkFromEntry,
         Mark, EndMark, EndAssembly, LinkVariable, EndVariables, LinkExterns,
         LinkFunction, EndTables, PatchCall, EndLink

LEMMA PatchIds ==
  ASSUME NEW patches, IsList(patches), NEW base,
         \A k \in 1 .. Len(patches) : DOMAIN patches[k] = {"pos", "id"}
  PROVE  LET moved == PatchesMoved(patches, base)
         IN  /\ IsList(moved) /\ Len(moved) = Len(patches)
             /\ \A k \in 1 .. Len(patches) : /\ moved[k].id = patches[k].id
                                           /\ moved[k].pos = patches[k].pos + base
<1> DEFINE moved == PatchesMoved(patches, base)
           S == { moved[k] : k \in 1 .. Len(patches) }
<1>1. Len(patches) \in Nat /\ DOMAIN patches = 1 .. Len(patches)
  BY Lists
<1>2. moved = [k \in 1 .. Len(patches) |-> [patches[k] EXCEPT !.pos = @ + base]]
  BY <1>1 DEF PatchesMoved
<1>3. \A k \in 1 .. Len(patches) : /\ moved[k].id = patches[k].id
                                    /\ moved[k].pos = patches[k].pos + base
  BY <1>2
<1>4. moved = [k \in 1 .. Len(patches) |-> moved[k]]
  BY <1>2
<1> HIDE DEF moved
<1>5. moved \in Seq(S) /\ Len(moved) = Len(patches)
  BY <1>1, <1>4
<1> HIDE DEF S
<1>6. IsList(moved)
  BY <1>5, ListIsSeq
<1>7. QED
  BY <1>3, <1>5, <1>6 DEF moved

(* A kept block is added to the text. *)
LEMMA AssembleKept ==
  ASSUME StageInv, SymbolsInv, LayoutInv, BlocksInv, AssemblyInv,
         Closed(Visited), NEW n \in 1 .. Len(source.functions), AllBound,
         Compiled = Len(source.functions), Assembled = n - 1,
         IdOf(n) \in Visited, program' = WithBlock(blocks[IdOf(n)])
  PROVE  AssembledUpTo(n, program')
<1> DEFINE block == blocks[IdOf(n)]
           moved == Moved(block, Len(program.text))
           patches == PatchesMoved(block.patches, Len(program.text))
<1>1. stage # "failed" /\ AssemblyInv /\ BlockIsOf(n) /\ IdOf(n) \in Blocks
      /\ n \in 1 .. Compiled
  BY DEF AllBound, BlocksInv
<1>2. /\ program'.functions = Append(program.functions, moved)
      /\ program'.patches = program.patches \o patches
      /\ program'.frameBytes = Larger(program.frameBytes, block.frame)
  BY DEF WithBlock
<1>3. /\ IsList(block.patches)
      /\ \A k \in 1 .. Len(block.patches) : DOMAIN block.patches[k] = {"pos", "id"}
      /\ calls[IdOf(n)] = [k \in 1 .. Len(block.patches) |-> block.patches[k].id]
      /\ block.binding = symbols[Fun(n).name]
  BY <1>1 DEF BlockIsOf, PatchesAreCalls
<1>4. \A i \in 1 .. Len(source.functions) : blocks[IdOf(i)].frame \in Nat
  <2>1. stage \notin {"structs", "failed"}
    BY DEF AllBound, BeforeCompile
  <2>2. \A i \in 1 .. Len(source.functions) : BlockIsOf(i)
    BY <1>1 DEF BlocksInv
  <2>3. QED
    BY <2>1, <2>2, FrameIsLaid DEF BlockIsOf
<1>5. /\ IsList(patches) /\ Len(patches) = Len(block.patches)
      /\ \A k \in 1 .. Len(block.patches) : patches[k].id = block.patches[k].id
  BY <1>3, PatchIds
<1>6. \A k \in 1 .. Len(block.patches) : block.patches[k].id \in Visited
  <2>1. Callees(IdOf(n)) \subseteq Visited
    BY DEF Closed
  <2>2. Len(block.patches) \in Nat
    BY <1>3, Lists
  <2>3. Len([k \in 1 .. Len(block.patches) |-> block.patches[k].id]) = Len(block.patches)
    BY <2>2
  <2>4. \A k \in 1 .. Len(block.patches) : block.patches[k].id \in Callees(IdOf(n))
    BY <1>3, <2>3 DEF Callees
  <2>5. QED
    BY <2>1, <2>4
<1>7. /\ moved.id = IdOf(n) /\ moved.frame = block.frame
      /\ moved = Moved(blocks[IdOf(n)], moved.address)
  BY <1>3 DEF Moved, IdOf
<1> HIDE DEF block, moved, patches
<1>8. /\ IsList(program.functions) /\ IsList(program.patches)
      /\ program.frameBytes \in Nat
      /\ \A k \in 1 .. Len(program.functions) :
           /\ \E i \in 1 .. n - 1 :
                /\ IdOf(i) \in Visited
                /\ program.functions[k] =
                     Moved(blocks[IdOf(i)], program.functions[k].address)
           /\ program.functions[k].frame <= program.frameBytes
      /\ \A i \in 1 .. n - 1 :
           IdOf(i) \in Visited =>
             \E k \in 1 .. Len(program.functions) : program.functions[k].id = IdOf(i)
      /\ \A k \in 1 .. Len(program.patches) : program.patches[k].id \in Visited
  BY <1>1 DEF AssemblyInv, AssembledUpTo
<1> DEFINE old == program.functions
           new == program'.functions
<1>9. /\ IsList(new) /\ Len(new) = Len(old) + 1 /\ Len(old) \in Nat
      /\ \A k \in 1 .. Len(old) : new[k] = old[k]
      /\ new[Len(old) + 1] = moved
  BY <1>2, <1>8, AppendToList, Lists
<1>10. /\ program'.frameBytes \in Nat
       /\ program.frameBytes <= program'.frameBytes
       /\ block.frame <= program'.frameBytes
  <2>1. block.frame \in Nat
    BY <1>4 DEF block
  <2>2. QED
    BY <1>2, <1>8, <2>1 DEF Larger
<1>11. ASSUME NEW k \in 1 .. Len(new)
       PROVE  /\ \E i \in 1 .. n :
                   IdOf(i) \in Visited /\ new[k] = Moved(blocks[IdOf(i)], new[k].address)
              /\ new[k].frame <= program'.frameBytes
  <2>1. CASE k = Len(old) + 1
    BY <1>7, <1>9, <1>10, <2>1, SMTT(30)
  <2>2. CASE k \in 1 .. Len(old)
    <3>1. PICK i \in 1 .. n - 1 :
            IdOf(i) \in Visited /\ old[k] = Moved(blocks[IdOf(i)], old[k].address)
      BY <1>8, <2>2
    <3>2. old[k].frame \in Nat
      BY <1>4, <3>1 DEF Moved
    <3>3. i \in 1 .. n /\ new[k] = old[k] /\ old[k].frame <= program.frameBytes
      <4>1. old[k].frame <= program.frameBytes
        BY <1>8, <2>2
      <4>2. new[k] = old[k]
        BY <1>9, <2>2
      <4>3. QED
        BY <4>1, <4>2
    <3>4. new[k].frame <= program'.frameBytes
      BY <1>8, <1>10, <3>2, <3>3
    <3>5. QED
      BY <3>1, <3>3, <3>4
  <2>3. QED
    BY <1>9, <2>1, <2>2
<1>12. ASSUME NEW i \in 1 .. n, IdOf(i) \in Visited
       PROVE  \E k \in 1 .. Len(new) : new[k].id = IdOf(i)
  <2>1. CASE i = n
    <3>1. Len(old) + 1 \in 1 .. Len(new)
      BY <1>9
    <3>2. QED
      BY <1>7, <1>9, <2>1, <3>1
  <2>2. CASE i # n
    <3>1. i \in 1 .. n - 1
      BY <2>2
    <3>2. PICK k \in 1 .. Len(old) : old[k].id = IdOf(i)
      BY <1>8, <1>12, <3>1
    <3>3. k \in 1 .. Len(new) /\ new[k] = old[k]
      BY <1>9
    <3>4. QED
      BY <3>2, <3>3
  <2>3. QED
    BY <2>1, <2>2
<1>13. /\ IsList(program'.patches)
       /\ \A k \in 1 .. Len(program'.patches) : program'.patches[k].id \in Visited
  <2> DEFINE a == program.patches
             b == program'.patches
  <2>1. /\ IsList(b) /\ Len(b) = Len(a) + Len(patches)
        /\ \A k \in 1 .. Len(a) : b[k] = a[k]
        /\ \A k \in 1 .. Len(patches) : b[Len(a) + k] = patches[k]
        /\ Len(a) \in Nat /\ Len(patches) \in Nat
    <3>1. IsList(a) /\ IsList(patches) /\ b = a \o patches
      BY <1>2, <1>5, <1>8
    <3> HIDE DEF a, b
    <3>2. QED
      BY <3>1, ConcatLists, Lists
  <2>2. \A k \in 1 .. Len(a) : a[k].id \in Visited
    BY <1>8
  <2>3. \A k \in 1 .. Len(patches) : patches[k].id \in Visited
    BY <1>5, <1>6
  <2> HIDE DEF a, b
  <2>4. ASSUME NEW k \in 1 .. Len(b)
        PROVE  b[k].id \in Visited
    <3>1. CASE k <= Len(a)
      BY <2>1, <2>2, <3>1
    <3>2. CASE k > Len(a)
      <4>1. k - Len(a) \in 1 .. Len(patches) /\ Len(a) + (k - Len(a)) = k
        BY <2>1, <3>2
      <4>2. b[k] = patches[k - Len(a)]
        BY <2>1, <4>1
      <4>3. QED
        BY <2>3, <4>1, <4>2
    <3>3. QED
      BY <2>1, <3>1, <3>2
  <2>5. QED
    BY <2>1, <2>4 DEF b
<1>14. QED
  BY <1>9, <1>10, <1>11, <1>12, <1>13 DEF AssembledUpTo

LEMMA SameAssembled ==
  ASSUME source' = source, symbols' = symbols, blocks' = blocks, graphVars' = graphVars
  PROVE  /\ \A n, text : AssembledUpTo(n, text)' <=> AssembledUpTo(n, text)
         /\ Visited' = Visited
<1>1. Visited' = Visited
  BY DEF graphVars, Visited, WithMark, Blocks
<1>2. \A i : IdOf(i)' = IdOf(i)
  BY DEF IdOf, Fun
<1>3. QED
  BY <1>1, <1>2 DEF AssembledUpTo

(* What AssembleBlock does with the block of function number at. *)
LEMMA BlockAssembled ==
  ASSUME StageInv, SymbolsInv, BlocksInv, AssembleBlock, stage' # "failed"
  PROVE  \E n \in 1 .. Len(source.functions) :
           /\ stage = "assemble" /\ stage' = "assemble" /\ at = n /\ at' = n + 1
           /\ UNCHANGED << graphVars, source, symbols, blocks, linked >>
           /\ AllBound /\ Compiled = Len(source.functions)
           /\ Assembled = n - 1 /\ Assembled' = n
           /\ \/ IdOf(n) \notin Visited /\ program' = program
              \/ IdOf(n) \in Visited /\ program' = WithBlock(blocks[IdOf(n)])
<1>0. PICK n : n = at
  OBVIOUS
<1>1. /\ stage = "assemble" /\ stage' = "assemble" /\ at' = n + 1
      /\ n \in 1 .. Len(source.functions)
      /\ UNCHANGED << graphVars, source, symbols, blocks, linked >>
  <2>1. Len(BlockIds) = Len(source.functions) /\ Len(source.functions) \in Nat
    BY SourceLists DEF BlockIds, StageInv
  <2>2. /\ stage = "assemble" /\ at <= Len(BlockIds)
        /\ UNCHANGED << graphVars, source, symbols, blocks, linked >>
    BY DEF AssembleBlock
  <2>3. stage' = "assemble" /\ at' = at + 1
    BY <2>2 DEF AssembleBlock, Failed
  <2>4. at \in 1 .. Len(source.functions)
    BY <2>1, <2>2 DEF StageInv
  <2>5. QED
    BY <1>0, <2>2, <2>3, <2>4
<1>2. BlockIds[n] = IdOf(n)
  BY <1>1, SourceLists DEF BlockIds, IdOf, Fun, StageInv
<1>3. \/ ~ KeptBlock(IdOf(n)) /\ program' = program
      \/ KeptBlock(IdOf(n)) /\ program' = WithBlock(blocks[IdOf(n)])
  BY <1>0, <1>1, <1>2 DEF AssembleBlock, Failed
<1>4. AllBound /\ Compiled = Len(source.functions)
  BY <1>1 DEF AllBound, BeforeCompile, Compiled
<1>5. Assembled = n - 1 /\ Assembled' = n
  BY <1>0, <1>1 DEF Assembled, BeforeAssemble, BeforeCompile
<1>6. KeptBlock(IdOf(n)) <=> IdOf(n) \in Visited
  <2>1. IdOf(n) \in Blocks
    BY <1>1, <1>4, AllCompiled
  <2>2. QED
    BY <2>1 DEF KeptBlock, Visited, WithMark
<1>7. QED
  BY <1>0, <1>1, <1>3, <1>4, <1>5, <1>6

LEMMA AssemblyStep ==
  ASSUME StageInv, SymbolsInv, LayoutInv, BlocksInv, GraphInv, WalkInv, AssemblyInv,
         [Next]_vars, stage # "failed"
  PROVE  AssemblyInv'
<1> SUFFICES ASSUME stage' # "failed" PROVE AssemblyInv'
  BY DEF AssemblyInv
<1>1. source' = source /\ Advances /\ Len(source.functions) \in Nat
  BY NextAdvances, SourceLists DEF StageInv
<1>2. CASE AssembleBlock
  <2>1. PICK n \in 1 .. Len(source.functions) :
          /\ stage = "assemble" /\ stage' = "assemble" /\ at = n /\ at' = n + 1
          /\ UNCHANGED << graphVars, source, symbols, blocks, linked >>
          /\ AllBound /\ Compiled = Len(source.functions)
          /\ Assembled = n - 1 /\ Assembled' = n
          /\ \/ IdOf(n) \notin Visited /\ program' = program
             \/ IdOf(n) \in Visited /\ program' = WithBlock(blocks[IdOf(n)])
    BY <1>2, BlockAssembled
  <2>2. AssembledUpTo(n, program')
    <3>1. CASE IdOf(n) \in Visited
      BY <2>1, <3>1, AssembleKept DEF GraphInv, VisitedIsClosed
    <3>2. CASE IdOf(n) \notin Visited
      <4>1. AssembledUpTo(n - 1, program) /\ program' = program
        BY <2>1, <3>2 DEF AssemblyInv
      <4>2. \A i \in 1 .. n - 1 : i \in 1 .. n
        BY <2>1
      <4>3. \A i \in 1 .. n : IdOf(i) \in Visited => i \in 1 .. n - 1
        BY <2>1, <3>2
      <4>4. QED
        BY <4>1, <4>2, <4>3 DEF AssembledUpTo
    <3>3. QED
      BY <3>1, <3>2
  <2>3. AssembledUpTo(Assembled, program)'
    BY <2>1, <2>2, SameAssembled
  <2>4. QED
    BY <2>1, <2>3 DEF AssemblyInv, BeforeAssemble, BeforeCompile
<1>3. CASE ~ AssembleBlock
  <2>1. program' = program /\ ~ Counts("assemble")
    BY <1>3, AssemblyStays, AssembleCounts
  <2>2. AssembledUpTo(Assembled, program)
    BY DEF AssemblyInv
  <2>3. Assembled' = Assembled
    BY <1>1, <2>1 DEF Advances, Goes, Counts, Fails, Assembled, BeforeAssemble,
                      BeforeCompile, StageInv
  <2>4. stage' \in BeforeAssemble => stage \in BeforeAssemble
    BY <1>1 DEF Advances, Goes, Counts, Fails, BeforeAssemble, BeforeCompile
  <2>5. CASE stage \in BeforeAssemble
    <3>1. Assembled = 0 /\ program.patches = << >>
      BY <2>5 DEF Assembled, AssemblyInv
    <3>2. /\ IsList(program.functions) /\ IsList(program.patches)
          /\ program.frameBytes \in Nat
          /\ \A k \in 1 .. Len(program.functions) : FALSE
      BY <2>2, <3>1 DEF AssembledUpTo
    <3>3. Len(program.patches) = 0
      BY <3>1
    <3>4. AssembledUpTo(Assembled, program)'
      BY <2>1, <2>3, <3>1, <3>2, <3>3 DEF AssembledUpTo
    <3>5. QED
      BY <2>1, <3>1, <3>4 DEF AssemblyInv
  <2>6. CASE stage \notin BeforeAssemble
    <3>1. ~ CompileFunction /\ ~ MarkFromEntry /\ ~ Mark
      BY <2>6 DEF CompileFunction, MarkFromEntry, Mark, BeforeAssemble
    <3>2. graphVars' = graphVars /\ blocks' = blocks
      BY <3>1, GraphVarsStay, BlocksStay
    <3>3. symbols' = symbols
      BY <2>6, SymbolsStay
         DEF BeforeAssemble, BeforeCompile, RegisterDeclaration, RegisterFunction
    <3>4. AssembledUpTo(Assembled, program)'
      <4>1. \A n, text : AssembledUpTo(n, text)' <=> AssembledUpTo(n, text)
        BY <1>1, <3>2, <3>3, SameAssembled
      <4>2. QED
        BY <2>1, <2>2, <2>3, <4>1
    <3>5. QED
      BY <2>4, <2>6, <3>4 DEF AssemblyInv
  <2>7. QED
    BY <2>5, <2>6
<1>4. QED
  BY <1>2, <1>3

-----------------------------------------------------------------------------
(* The descriptors and the parameter tables.                               *)

(* A function of the text is one of the source, as written.                *)
LEMMA TextFunctions ==
  ASSUME StageInv, SymbolsInv, LayoutInv, BlocksInv, AssemblyInv, AllBound,
         Compiled = Len(source.functions), NEW k \in 1 .. Len(program.functions)
  PROVE  \E i \in 1 .. Assembled :
           LET f == Fun(i)
               g == program.functions[k]
               layout == FrameLayout(ParamTypes(f.params) \o f.locals)
           IN  /\ IdOf(i) \in Visited /\ g.id = IdOf(i)
               /\ g.frame = layout.size /\ g.result = f.result
               /\ g.params = ParamTypes(f.params)
               /\ IsList(g.params) /\ Len(g.params) = Len(f.params)
               /\ IsList(g.offsets) /\ Len(g.offsets) = Len(f.params)
               /\ \A m \in 1 .. Len(f.params) : g.offsets[m] = layout.offsets[m]
<1>1. stage # "failed" /\ stage \notin {"structs", "failed"}
  BY DEF AllBound, BeforeCompile
<1>2. PICK i \in 1 .. Assembled :
        /\ IdOf(i) \in Visited
        /\ program.functions[k] = Moved(blocks[IdOf(i)], program.functions[k].address)
  BY <1>1 DEF AssemblyInv, AssembledUpTo
<1> DEFINE f == Fun(i)
           g == program.functions[k]
           layout == FrameLayout(ParamTypes(f.params) \o f.locals)
<1>3. i \in 1 .. Len(source.functions)
  BY SourceLists DEF StageInv
<1>4. BlockIsOf(i)
  BY <1>1, <1>3 DEF BlocksInv
<1>5. /\ g.id = symbols[f.name].id /\ g.params = symbols[f.name].params
      /\ g.result = symbols[f.name].result
      /\ g.frame = layout.size /\ g.offsets = SubSeq(layout.offsets, 1, Len(f.params))
  BY <1>2, <1>4 DEF BlockIsOf, Moved
<1>6. g.params = ParamTypes(f.params) /\ g.result = f.result
  BY <1>3, <1>5, FunctionsBound
<1>7. IsList(ParamTypes(f.params)) /\ Len(ParamTypes(f.params)) = Len(f.params)
  <2>1. IsList(f.params)
    BY <1>3, FunctionLists
  <2> HIDE DEF f
  <2>2. Len(f.params) \in Nat /\ DOMAIN f.params = 1 .. Len(f.params)
    BY <2>1, Lists
  <2> DEFINE S == { f.params[m].type : m \in 1 .. Len(f.params) }
  <2>3. ParamTypes(f.params) \in Seq(S) /\ Len(ParamTypes(f.params)) = Len(f.params)
    BY <2>2 DEF ParamTypes
  <2> HIDE DEF S
  <2>4. QED
    BY <2>3, ListIsSeq
<1>8. /\ IsList(g.offsets) /\ Len(g.offsets) = Len(f.params)
      /\ \A m \in 1 .. Len(f.params) : g.offsets[m] = layout.offsets[m]
  BY <1>1, <1>3, <1>5, FrameIsLaid
<1>9. g.id = IdOf(i)
  BY <1>5 DEF IdOf
<1> HIDE DEF f, g, layout
<1>10. QED
  BY <1>2, <1>5, <1>6, <1>7, <1>8, <1>9 DEF f, g, layout

(* A descriptor is added with slices of its own. *)
LEMMA DescriptorAdded ==
  ASSUME NEW n \in Nat, DescribedUpTo(n, linked), NEW f,
         f = program.functions[n + 1],
         IsList(f.params), IsList(f.offsets), Len(f.params) = Len(f.offsets),
         linked' = WithDescriptor(f)
  PROVE  DescribedUpTo(n + 1, linked')
<1> DEFINE functions == linked.functions
           kinds == linked.paramKinds
           offsets == linked.paramOffsets
           d == [body |-> f.address, paramStart |-> Len(kinds),
                 paramCount |-> Len(f.params), frame |-> f.frame, result |-> f.result]
<1>1. /\ IsList(functions) /\ IsList(kinds) /\ IsList(offsets)
      /\ Len(functions) = n /\ Len(offsets) = Len(kinds)
      /\ \A k \in 1 .. n : DescribesFunction(k, program.functions[k], linked)
      /\ DOMAIN linked.index = { program.functions[k].id : k \in 1 .. n }
  BY DEF DescribedUpTo
<1>2. Len(kinds) \in Nat /\ Len(f.params) \in Nat
  BY <1>1, Lists
<1>3. /\ DOMAIN linked' = DOMAIN linked
      /\ linked'.functions = Append(functions, d)
      /\ linked'.paramKinds = kinds \o f.params
      /\ linked'.paramOffsets = offsets \o f.offsets
      /\ DOMAIN linked'.index = DOMAIN linked.index \cup {f.id}
  BY DEF WithDescriptor, DescribedUpTo, ParamStart
<1>4. /\ d.frame = f.frame /\ d.result = f.result
      /\ d.paramCount = Len(f.params) /\ d.paramStart = Len(kinds)
  OBVIOUS
<1> HIDE DEF functions, kinds, offsets, d
<1>5. /\ IsList(linked'.functions) /\ Len(linked'.functions) = n + 1
      /\ \A k \in 1 .. n : linked'.functions[k] = functions[k]
      /\ linked'.functions[n + 1] = d
  <2>1. IsList(functions) /\ Len(functions) = n /\ linked'.functions = Append(functions, d)
    BY <1>1, <1>3
  <2>2. LET more == Append(functions, d)
        IN  /\ IsList(more) /\ Len(more) = Len(functions) + 1
            /\ \A k \in 1 .. Len(functions) : more[k] = functions[k]
            /\ more[Len(functions) + 1] = d
    BY <2>1, AppendToList
  <2>3. QED
    BY <2>1, <2>2
<1>6. /\ IsList(linked'.paramKinds)
      /\ Len(linked'.paramKinds) = Len(kinds) + Len(f.params)
      /\ \A m \in 1 .. Len(kinds) : linked'.paramKinds[m] = kinds[m]
      /\ \A m \in 1 .. Len(f.params) : linked'.paramKinds[Len(kinds) + m] = f.params[m]
  <2> DEFINE params == f.params
  <2>1. IsList(params) /\ linked'.paramKinds = kinds \o params
    BY <1>3
  <2> HIDE DEF params
  <2>2. LET both == kinds \o params
        IN  /\ IsList(both) /\ Len(both) = Len(kinds) + Len(params)
            /\ \A m \in 1 .. Len(kinds) : both[m] = kinds[m]
            /\ \A m \in 1 .. Len(params) : both[Len(kinds) + m] = params[m]
    BY <1>1, <2>1, ConcatLists
  <2>3. QED
    BY <2>1, <2>2 DEF params
<1>7. /\ IsList(linked'.paramOffsets)
      /\ Len(linked'.paramOffsets) = Len(kinds) + Len(f.params)
      /\ \A m \in 1 .. Len(kinds) : linked'.paramOffsets[m] = offsets[m]
      /\ \A m \in 1 .. Len(f.params) : linked'.paramOffsets[Len(kinds) + m] = f.offsets[m]
  <2> DEFINE added == f.offsets
  <2>1. IsList(added) /\ linked'.paramOffsets = offsets \o added
    BY <1>3
  <2> HIDE DEF added
  <2>2. LET both == offsets \o added
        IN  /\ IsList(both) /\ Len(both) = Len(offsets) + Len(added)
            /\ \A m \in 1 .. Len(offsets) : both[m] = offsets[m]
            /\ \A m \in 1 .. Len(added) : both[Len(offsets) + m] = added[m]
    <3>1. IsList(offsets) /\ IsList(added)
      BY <1>1, <2>1
    <3>2. QED
      BY <3>1, ConcatLists
  <2>3. Len(added) = Len(f.params)
    BY DEF added
  <2>4. QED
    BY <1>1, <2>1, <2>2, <2>3 DEF added
<1>8. ASSUME NEW k \in 1 .. n
      PROVE  DescribesFunction(k, program.functions[k], linked')
  <2> DEFINE e == functions[k]
             g == program.functions[k]
  <2>1. /\ e.frame = g.frame /\ e.result = g.result
        /\ e.paramCount = Len(g.params) /\ e.paramStart \in Nat
        /\ e.paramStart + e.paramCount <= Len(kinds)
        /\ \A m \in 1 .. Len(g.params) :
             kinds[e.paramStart + m] = g.params[m] /\ offsets[e.paramStart + m] = g.offsets[m]
    BY <1>1 DEF DescribesFunction, functions, kinds, offsets
  <2>2. linked'.functions[k] = e
    BY <1>5
  <2> HIDE DEF e, g
  <2>3. ASSUME NEW m \in 1 .. Len(g.params)
        PROVE  /\ linked'.paramKinds[e.paramStart + m] = g.params[m]
               /\ linked'.paramOffsets[e.paramStart + m] = g.offsets[m]
    <3>1. e.paramStart + m \in 1 .. Len(kinds)
      BY <1>2, <2>1
    <3>2. QED
      BY <1>6, <1>7, <2>1, <3>1
  <2>4. e.paramStart + e.paramCount <= Len(linked'.paramKinds)
    <3> DEFINE before == Len(kinds)
               added == Len(f.params)
               after == Len(linked'.paramKinds)
               end == e.paramStart + e.paramCount
    <3>1. before \in Nat /\ added \in Nat /\ after = before + added
      BY <1>2, <1>6
    <3>2. end <= before /\ end \in Int
      BY <2>1
    <3> HIDE DEF before, added, after, end
    <3>3. end <= after
      BY <3>1, <3>2
    <3>4. QED
      BY <3>3 DEF end, after
  <2>5. QED
    BY <2>1, <2>2, <2>3, <2>4 DEF DescribesFunction, g
<1>9. DescribesFunction(n + 1, f, linked')
  <2>1. /\ linked'.functions[n + 1].paramStart = Len(kinds)
        /\ linked'.functions[n + 1].paramCount = Len(f.params)
        /\ linked'.functions[n + 1].frame = f.frame
        /\ linked'.functions[n + 1].result = f.result
    BY <1>4, <1>5
  <2> DEFINE before == Len(kinds)
             count == Len(f.params)
             after == Len(linked'.paramKinds)
  <2>2. before \in Nat /\ count \in Nat /\ after = before + count
    BY <1>2, <1>6
  <2>3. /\ linked'.functions[n + 1].paramStart = before
        /\ linked'.functions[n + 1].paramCount = count
        /\ \A m \in 1 .. count :
             /\ linked'.paramKinds[before + m] = f.params[m]
             /\ linked'.paramOffsets[before + m] = f.offsets[m]
    BY <1>1, <1>6, <1>7, <2>1
  <2> HIDE DEF before, after
  <2>4. before + count <= after
    BY <2>2
  <2>5. QED
    BY <2>1, <2>2, <2>3, <2>4 DEF DescribesFunction, after
<1>10. \A k \in 1 .. n + 1 : DescribesFunction(k, program.functions[k], linked')
  <2>1. \A k \in 1 .. n + 1 : k \in 1 .. n \/ k = n + 1
    OBVIOUS
  <2>2. QED
    BY <1>8, <1>9, <2>1
<1>11. DOMAIN linked'.index = { program.functions[k].id : k \in 1 .. n + 1 }
  <2> DEFINE Id(k) == program.functions[k].id
  <2>1. 1 .. n + 1 = (1 .. n) \cup {n + 1}
    OBVIOUS
  <2>2. DOMAIN linked'.index = { Id(k) : k \in 1 .. n } \cup {Id(n + 1)}
    BY <1>1, <1>3
  <2> HIDE DEF Id
  <2>3. { Id(k) : k \in 1 .. n + 1 } = { Id(k) : k \in 1 .. n } \cup {Id(n + 1)}
    BY <2>1
  <2>4. QED
    BY <2>2, <2>3 DEF Id
<1>12. QED
  BY <1>3, <1>5, <1>6, <1>7, <1>10, <1>11 DEF DescribedUpTo

LEMMA TablesEnd ==
  ASSUME [Next]_vars, ~ EndTables
  PROVE  ~ (stage = "tables" /\ stage' = "calls")
<1>1. CASE UNCHANGED vars
  BY <1>1 DEF vars
<1>2. CASE ~ UNCHANGED vars
  BY <1>2
     DEF Next, Failed, ReadStruct, ReadVariables, RegisterDeclaration, EndDeclarations,
         InitializeGlobal, RegisterFunction, FindEntry, CompileFunction, MarkFromEntry,
         Mark, EndMark, AssembleBlock, EndAssembly, LinkVariable, EndVariables,
         LinkExterns, LinkFunction, PatchCall, EndLink
<1>3. QED
  BY <1>1, <1>2

LEMMA TablesStay ==
  ASSUME StageInv, [Next]_vars, ~ LinkFunction, ~ EndTables, ~ PatchCall, ~ EndLink
  PROVE  linked' = linked /\ ~ Counts("tables") /\ ~ (stage # "linked" /\ stage' = "linked")
<1> USE DEF Counts
<1>1. CASE ReadStruct \/ ReadVariables
  BY <1>1 DEF ReadStruct, ReadVariables, Failed
<1>2. CASE RegisterDeclaration \/ EndDeclarations
  BY <1>2 DEF RegisterDeclaration, EndDeclarations, Failed
<1>3. CASE InitializeGlobal
  BY <1>3 DEF InitializeGlobal, Failed
<1>4. CASE RegisterFunction \/ FindEntry
  BY <1>4 DEF RegisterFunction, FindEntry, Failed
<1>5. CASE CompileFunction
  BY <1>5 DEF CompileFunction, Failed
<1>6. CASE MarkFromEntry \/ Mark \/ EndMark
  BY <1>6 DEF MarkFromEntry, Mark, EndMark, Failed
<1>7. CASE AssembleBlock
  BY <1>7 DEF AssembleBlock, Failed
<1>8. CASE EndAssembly
  BY <1>8 DEF EndAssembly
<1>9. CASE LinkVariable
  BY <1>9 DEF LinkVariable, Failed
<1>10. CASE EndVariables \/ LinkExterns
  BY <1>10 DEF EndVariables, LinkExterns, Failed
<1>11. CASE UNCHANGED vars
  BY <1>11 DEF vars, StageInv
<1>12. QED
  BY <1>1, <1>2, <1>3, <1>4, <1>5, <1>6, <1>7, <1>8, <1>9, <1>10, <1>11 DEF Next

(* The steps that change no descriptor and no parameter table. *)
LEMMA TablesKept ==
  ASSUME EndTables \/ PatchCall \/ EndLink,
         DescribedUpTo(Len(program.functions), linked),
         stage' # "failed"
  PROVE  /\ DescribedUpTo(Len(program.functions), linked')
         /\ program' = program
         /\ stage' = "linked" => linked'.frameByteSize = program.frameBytes
<1>1. /\ DOMAIN linked' = DOMAIN linked
      /\ linked'.functions = linked.functions
      /\ linked'.paramKinds = linked.paramKinds
      /\ linked'.paramOffsets = linked.paramOffsets
      /\ linked'.index = linked.index
      /\ program' = program
      /\ stage' = "linked" => linked'.frameByteSize = program.frameBytes
  <2>1. CASE EndTables
    BY <2>1 DEF EndTables, DescribedUpTo
  <2>2. CASE PatchCall
    BY <2>2 DEF PatchCall, Failed, DescribedUpTo
  <2>3. CASE EndLink
    BY <2>3 DEF EndLink, Failed, DescribedUpTo
  <2>4. QED
    BY <2>1, <2>2, <2>3
<1> DEFINE n == Len(program.functions)
<1>2. \A k \in 1 .. n : DescribesFunction(k, program.functions[k], linked)
                       => DescribesFunction(k, program'.functions[k], linked')
  BY <1>1 DEF DescribesFunction
<1>3. n' = n
  BY <1>1
<1> HIDE DEF n
<1>4. DescribedUpTo(n, linked')
  <2>1. \A k \in 1 .. n : DescribesFunction(k, program.functions[k], linked')
    BY <1>1, <1>2 DEF DescribedUpTo, n
  <2>2. QED
    BY <1>1, <2>1 DEF DescribedUpTo, n
<1>5. QED
  BY <1>1, <1>3, <1>4 DEF n

LEMMA ProgramStays ==
  ASSUME [Next]_vars, stage # "assemble"
  PROVE  program' = program
BY AssemblyStays DEF AssembleBlock

LEMMA TablesStep ==
  ASSUME StageInv, SymbolsInv, LayoutInv, BlocksInv, AssemblyInv, TablesInv,
         AssemblyInv', [Next]_vars, stage # "failed"
  PROVE  TablesInv'
<1> SUFFICES ASSUME stage' # "failed" PROVE TablesInv'
  BY DEF TablesInv
<1>1. source' = source /\ Advances
  BY NextAdvances DEF StageInv
<1>2. Len(program.functions) \in Nat /\ Len(program'.functions) \in Nat
  BY Lists DEF AssemblyInv, AssembledUpTo
<1>3. Described \in 0 .. Len(program.functions) /\ DescribedUpTo(Described, linked)
  BY DEF TablesInv
<1>4. CASE LinkFunction
  <2>0. PICK n : n = at
    OBVIOUS
  <2> DEFINE f == program.functions[n]
  <2>1. /\ stage = "tables" /\ n \in 1 .. Len(program.functions) /\ program' = program
    <3>1. at \in Nat \ {0}
      BY DEF StageInv
    <3>2. stage = "tables" /\ at <= Len(program.functions) /\ program' = program
      BY <1>4 DEF LinkFunction
    <3>3. QED
      BY <1>2, <2>0, <3>1, <3>2
  <2>2. stage' = "tables" /\ at' = n + 1 /\ linked' = WithDescriptor(f)
        /\ Len(f.params) = Len(f.offsets)
    BY <1>4, <2>0, <2>1 DEF LinkFunction, Failed
  <2>3. Described = n - 1 /\ Described' = n
    BY <2>0, <2>1, <2>2 DEF Described, BeforeTables, BeforeAssemble, BeforeCompile
  <2>4. AllBound /\ Compiled = Len(source.functions)
    BY <2>1 DEF AllBound, BeforeCompile, Compiled
  <2>5. IsList(f.params) /\ IsList(f.offsets)
    BY <2>1, <2>4, TextFunctions
  <2>6. n - 1 \in Nat /\ n - 1 + 1 = n
    BY <1>2, <2>1
  <2>7. DescribedUpTo(n, linked')
    <3> HIDE DEF f
    <3>1. f = program.functions[n - 1 + 1] /\ DescribedUpTo(n - 1, linked)
      BY <1>3, <2>3, <2>6 DEF f
    <3>2. QED
      BY <2>2, <2>5, <2>6, <3>1, DescriptorAdded
  <2>8. DescribedUpTo(Described, linked)'
    BY <2>1, <2>3, <2>7 DEF DescribedUpTo
  <2>9. QED
    BY <1>2, <2>1, <2>2, <2>3, <2>8 DEF TablesInv
<1>5. CASE EndTables \/ PatchCall \/ EndLink
  <2>1. stage \in {"tables", "calls"} /\ stage' \in {"calls", "linked"}
    BY <1>5 DEF EndTables, PatchCall, EndLink, Failed
  <2>2. Described = Len(program.functions)
    <3>1. CASE EndTables
      <4>1. at > Len(program.functions) /\ stage = "tables"
        BY <3>1 DEF EndTables
      <4>2. Described = at - 1
        BY <4>1 DEF Described, BeforeTables, BeforeAssemble, BeforeCompile
      <4>3. QED
        BY <1>2, <1>3, <4>1, <4>2, SMTT(30) DEF StageInv
    <3>2. CASE PatchCall \/ EndLink
      BY <3>2 DEF PatchCall, EndLink, Described, BeforeTables, BeforeAssemble, BeforeCompile
    <3>3. QED
      BY <1>5, <3>1, <3>2
  <2>3. /\ DescribedUpTo(Len(program.functions), linked')
        /\ program' = program
        /\ stage' = "linked" => linked'.frameByteSize = program.frameBytes
    BY <1>3, <1>5, <2>2, TablesKept
  <2>4. Described' = Len(program.functions)
    BY <2>1, <2>3 DEF Described, BeforeTables, BeforeAssemble, BeforeCompile
  <2>5. DescribedUpTo(Described, linked)'
    BY <2>3, <2>4 DEF DescribedUpTo
  <2>6. QED
    BY <1>2, <2>3, <2>4, <2>5 DEF TablesInv
<1>6. CASE ~ LinkFunction /\ ~ EndTables /\ ~ PatchCall /\ ~ EndLink
  <2>1. linked' = linked /\ ~ Counts("tables") /\ ~ (stage # "linked" /\ stage' = "linked")
    BY <1>6, TablesStay
  <2>2. CASE stage \in BeforeTables
    <3>1. Described = 0
      BY <2>2 DEF Described
    <3>2. stage' \in BeforeTables \/ (stage' = "tables" /\ at' = 1)
      <4>1. CASE stage' = stage
        BY <2>2, <4>1
      <4>2. CASE stage' # stage
        BY <1>1, <2>2, <4>2 DEF Advances, Goes, Counts, Fails, BeforeTables,
                                BeforeAssemble, BeforeCompile
      <4>3. QED
        BY <4>1, <4>2
    <3>3. Described' = 0 /\ stage' # "linked"
      BY <3>2 DEF Described, BeforeTables, BeforeAssemble, BeforeCompile
    <3>4. DescribedUpTo(Described, linked)'
      BY <1>3, <2>1, <3>1, <3>3 DEF DescribedUpTo
    <3>5. QED
      BY <1>2, <3>3, <3>4 DEF TablesInv
  <2>3. CASE stage \notin BeforeTables
    <3>1. program' = program
      BY <2>3, ProgramStays DEF BeforeTables
    <3>2. stage' = stage \/ (stage = "tables" /\ stage' = "calls") \/ stage' = "linked"
      <4>1. CASE stage' # stage
        BY <1>1, <2>3, <4>1 DEF Advances, Goes, Counts, Fails, BeforeTables,
                                BeforeAssemble, BeforeCompile
      <4>2. QED
        BY <4>1
    <3>3. ~ (stage = "tables" /\ stage' = "calls")
      BY <1>6, TablesEnd
    <3>4. stage' = stage
      BY <2>1, <3>2, <3>3
    <3>5. Described' = Described
      BY <1>1, <2>1, <2>3, <3>1, <3>4
         DEF Advances, Goes, Counts, Fails, Described, StageInv
    <3>6. DescribedUpTo(Described, linked)'
      BY <1>3, <2>1, <3>1, <3>5 DEF DescribedUpTo
    <3>7. QED
      BY <1>3, <2>1, <3>1, <3>4, <3>5, <3>6 DEF TablesInv
  <2>4. QED
    BY <2>2, <2>3
<1>7. QED
  BY <1>4, <1>5, <1>6

-----------------------------------------------------------------------------
(* What the toolchain refuses a program for.                               *)

LEMMA EntryIsKept ==
  ASSUME StageInv, SymbolsInv, BlocksInv, GraphInv, WalkInv,
         stage \notin BeforeAssemble \cup {"failed"}
  PROVE  /\ AllBound
         /\ Compiled = Len(source.functions)
         /\ EntryFunction \in Visited
         /\ Visited \subseteq { IdOf(i) : i \in 1 .. Len(source.functions) }
         /\ \E i \in 1 .. Len(source.functions) : Fun(i).name = EntryName
<1>1. AllBound /\ Compiled = Len(source.functions)
  BY DEF AllBound, Compiled, BeforeAssemble, BeforeCompile
<1>2. verdict = "marked" /\ entry = EntryFunction
      /\ \E i \in 1 .. Len(source.functions) : Fun(i).name = EntryName
  BY DEF WalkInv, BeforeAssemble, BeforeCompile
<1>3. EntryFunction \in Visited
  BY <1>2 DEF GraphInv, PathIsVisiting
<1>4. Visited \subseteq Blocks
  BY DEF Visited, WithMark
<1>5. QED
  BY <1>1, <1>2, <1>3, <1>4, AllCompiled

(* Each function that is kept has a descriptor once all have one. *)
LEMMA KeptIsIndexed ==
  ASSUME StageInv, SymbolsInv, BlocksInv, GraphInv, WalkInv, AssemblyInv, TablesInv,
         stage \in {"calls", "linked"}
  PROVE  /\ Visited \subseteq DOMAIN linked.index
         /\ EntryFunction \in DOMAIN linked.index
<1>1. stage \notin BeforeAssemble \cup {"failed"} /\ stage # "failed"
  BY DEF BeforeAssemble, BeforeCompile
<1>2. Assembled = Len(source.functions) /\ Described = Len(program.functions)
  BY DEF Assembled, Described, BeforeTables, BeforeAssemble, BeforeCompile
<1>3. ASSUME NEW id \in Visited
      PROVE  id \in DOMAIN linked.index
  <2>1. PICK i \in 1 .. Len(source.functions) : id = IdOf(i)
    BY <1>1, EntryIsKept
  <2>2. PICK k \in 1 .. Len(program.functions) : program.functions[k].id = id
    BY <1>1, <1>2, <1>3, <2>1 DEF AssemblyInv, AssembledUpTo
  <2>3. DOMAIN linked.index = { program.functions[m].id : m \in 1 .. Len(program.functions) }
    BY <1>1, <1>2 DEF TablesInv, DescribedUpTo
  <2>4. QED
    BY <2>2, <2>3
<1>4. QED
  BY <1>1, <1>3, EntryIsKept

LEMMA FailureStep ==
  ASSUME Inv, [Next]_vars
  PROVE  failure' \notin Idle
<1> USE DEF Failed
<1>0. failure \notin Idle
  BY DEF Inv
<1>1. CASE ReadStruct
  BY <1>0, <1>1 DEF ReadStruct, Idle
<1>2. CASE ReadVariables
  BY <1>0, <1>2 DEF ReadVariables, Idle
<1>3. CASE RegisterDeclaration
  BY <1>0, <1>3 DEF RegisterDeclaration, Idle
<1>4. CASE EndDeclarations
  BY <1>0, <1>4 DEF EndDeclarations, Idle
<1>5. CASE InitializeGlobal
  BY <1>0, <1>5 DEF InitializeGlobal, Idle
<1>6. CASE RegisterFunction
  BY <1>0, <1>6 DEF RegisterFunction, Idle
<1>7. CASE FindEntry
  BY <1>0, <1>7 DEF FindEntry, Idle
<1>8. CASE CompileFunction
  BY <1>0, <1>8 DEF CompileFunction, Idle
<1>9. CASE MarkFromEntry \/ Mark
  BY <1>0, <1>9 DEF MarkFromEntry, Mark
<1>10. CASE EndMark
  <2>1. stage = "mark"
    BY <1>10 DEF EndMark
  <2>2. verdict # "unknown"
    BY <2>1 DEF Inv, WalkInv
  <2>3. QED
    BY <1>0, <1>10, <2>2 DEF EndMark, Idle
<1>11. CASE AssembleBlock
  BY <1>0, <1>11 DEF AssembleBlock, Idle
<1>12. CASE EndAssembly \/ EndVariables
  BY <1>0, <1>12 DEF EndAssembly, EndVariables
<1>13. CASE LinkVariable
  <2>1. stage = "variables" /\ at <= Len(places.extern)
    BY <1>13 DEF LinkVariable
  <2>2. PlacesInv /\ at \in Nat \ {0}
    BY <2>1 DEF Inv, LayoutInv, StageInv
  <2>3. Len(places.extern) \in Nat
    BY <2>2, Lists DEF PlacesInv
  <2>4. places.extern[at].offset % places.extern[at].type.alignment = 0
    BY <2>1, <2>2, <2>3 DEF PlacesInv
  <2>5. failure' \in {failure, "extern range"}
    BY <1>13, <2>4 DEF LinkVariable
  <2>6. QED
    BY <1>0, <2>5 DEF Idle
<1>14. CASE LinkExterns
  BY <1>0, <1>14 DEF LinkExterns, Idle
<1>15. CASE LinkFunction
  <2>1. stage = "tables" /\ at <= Len(program.functions)
    BY <1>15 DEF LinkFunction
  <2>2. AllBound /\ Compiled = Len(source.functions)
    BY <2>1 DEF AllBound, BeforeCompile, Compiled
  <2>3. at \in 1 .. Len(program.functions)
    <3>1. Len(program.functions) \in Nat /\ at \in Nat \ {0}
      BY <2>1, Lists DEF Inv, AssemblyInv, AssembledUpTo, StageInv
    <3>2. QED
      BY <2>1, <3>1
  <2>4. Len(program.functions[at].params) = Len(program.functions[at].offsets)
    <3>1. StageInv /\ SymbolsInv /\ LayoutInv /\ BlocksInv /\ AssemblyInv
      BY DEF Inv
    <3>2. QED
      BY <2>2, <2>3, <3>1, TextFunctions
  <2>5. failure' \in {failure, "parameter kind"}
    BY <1>15, <2>4 DEF LinkFunction
  <2>6. QED
    BY <1>0, <2>5 DEF Idle
<1>16. CASE EndTables
  BY <1>0, <1>16 DEF EndTables
<1>17. CASE PatchCall
  <2>1. stage = "calls" /\ at <= Len(program.patches)
    BY <1>17 DEF PatchCall
  <2>2. at \in 1 .. Len(program.patches)
    <3>1. Len(program.patches) \in Nat /\ at \in Nat \ {0}
      BY <2>1, Lists DEF Inv, AssemblyInv, AssembledUpTo, StageInv
    <3>2. QED
      BY <2>1, <3>1
  <2>3. program.patches[at].id \in Visited
    BY <2>1, <2>2 DEF Inv, AssemblyInv, AssembledUpTo
  <2>4. program.patches[at].id \in DOMAIN linked.index
    BY <2>1, <2>3, KeptIsIndexed DEF Inv
  <2>5. QED
    BY <1>0, <1>17, <2>4 DEF PatchCall
<1>18. CASE EndLink
  <2>1. stage = "calls"
    BY <1>18 DEF EndLink
  <2>2. EntryFunction \in DOMAIN linked.index
    BY <2>1, KeptIsIndexed DEF Inv
  <2>3. QED
    BY <1>0, <1>18, <2>2 DEF EndLink
<1>19. CASE UNCHANGED vars
  BY <1>0, <1>19 DEF vars, Idle
<1>20. QED
  BY <1>1, <1>2, <1>3, <1>4, <1>5, <1>6, <1>7, <1>8, <1>9, <1>10, <1>11, <1>12,
     <1>13, <1>14, <1>15, <1>16, <1>17, <1>18, <1>19 DEF Next

-----------------------------------------------------------------------------
LEMMA EmptyList == IsList(<< >>) /\ Len(<< >>) = 0
BY DEF IsList

LEMMA ScalarsAreDescriptors == \A name \in DOMAIN SizeOf : IsDescriptor(Scalar(name))
<1> SUFFICES ASSUME NEW name \in DOMAIN SizeOf PROVE IsDescriptor(Scalar(name))
  OBVIOUS
<1>1. name \in {"Void", "Bool", "Uint8", "Int32", "Text", "Pointer", "Int64"}
  BY DEF SizeOf
<1>2. SizeOf[name] \in {0, 1, 4, 8}
  BY <1>1 DEF SizeOf
<1>3. QED
  BY <1>2 DEF IsDescriptor, Scalar

LEMMA Initially == Init => Inv
<1> SUFFICES ASSUME Init PROVE Inv
  OBVIOUS
<1>1. /\ stage = "structs" /\ at = 1 /\ symbols = << >> /\ blocks = << >>
      /\ failure = "none" /\ source \in Sources
      /\ GraphInit /\ LayoutInit
  BY DEF Init
<1>2. GraphInv
  BY <1>1, GraphInvInitially
<1>3. /\ StructsRead = 0 /\ DeclsRead = 0 /\ FunctionsRead = 0
      /\ Compiled = 0 /\ Assembled = 0 /\ Described = 0
  BY <1>1 DEF StructsRead, DeclsRead, FunctionsRead, Compiled, Assembled, Described,
              BeforeTables, BeforeAssemble, BeforeCompile
<1>4. StageInv
  BY <1>1, <1>3, SourceLists DEF StageInv, Stages
<1>5. SymbolsInv
  <2>1. Functions = {} /\ DOMAIN symbols = {}
    BY <1>1 DEF Functions
  <2>2. IsFiniteSet(Functions) /\ Cardinality(Functions) = 0
    BY <2>1, FS_EmptySet
  <2>3. IdsInv
    BY <1>3, <2>1, <2>2 DEF IdsInv
  <2>4. NamesInv /\ BindingsInv
    BY <1>3, <2>1 DEF NamesInv, BindingsInv
  <2>5. QED
    BY <2>3, <2>4 DEF SymbolsInv
<1>6. LayoutInv
  <2>1. \A name \in DOMAIN SizeOf : IsDescriptor(Scalar(name))
    BY ScalarsAreDescriptors
  <2>2. TypesInv
    <3>1. types = [name \in DOMAIN SizeOf |-> Scalar(name)]
      BY <1>1 DEF LayoutInit
    <3>2. DOMAIN types = DOMAIN SizeOf
      BY <3>1
    <3>3. \A name \in DOMAIN SizeOf : types[name] = Scalar(name)
      BY <3>1
    <3>4. { source.structs[i].name : i \in 1 .. StructsRead } = {}
      BY <1>3
    <3>5. QED
      BY <2>1, <3>2, <3>3, <3>4, Zenon DEF TypesInv
  <2>3. PlacesInv
    BY <1>1, EmptyList DEF PlacesInv, LayoutInit, Segments
  <2>4. QED
    BY <1>1, <2>2, <2>3 DEF LayoutInv
<1>7. BlocksInv
  BY <1>1, <1>3 DEF BlocksInv, GraphInit, Blocks
<1>8. WalkInv
  BY <1>1 DEF WalkInv, GraphInit, BeforeCompile, BeforeAssemble
<1>9. AssemblyInv
  BY <1>3, EmptyList DEF Init, AssemblyInv, AssembledUpTo
<1>10. TablesInv
  BY <1>1, <1>3, EmptyList DEF Init, TablesInv, DescribedUpTo
<1>11. failure \notin Idle
  BY <1>1 DEF Idle
<1>12. QED
  BY <1>2, <1>4, <1>5, <1>6, <1>7, <1>8, <1>9, <1>10, <1>11 DEF Inv

LEMMA Inductive == Inv /\ [Next]_vars => Inv'
<1> SUFFICES ASSUME Inv, [Next]_vars PROVE Inv'
  OBVIOUS
<1>1. StageInv /\ SymbolsInv /\ LayoutInv /\ BlocksInv /\ WalkInv /\ AssemblyInv
      /\ TablesInv /\ (stage # "failed" => GraphInv)
  BY DEF Inv
<1>2. StageInv' /\ SymbolsInv' /\ LayoutInv' /\ BlocksInv'
  BY <1>1, StageStep, SymbolsStep, LayoutStep, BlocksStep
<1>3. failure' \notin Idle
  BY FailureStep
<1>4. CASE stage' = "failed"
  <2>1. WalkInv' /\ AssemblyInv' /\ TablesInv'
    BY <1>4 DEF WalkInv, AssemblyInv, TablesInv
  <2>2. QED
    BY <1>2, <1>3, <1>4, <2>1 DEF Inv
<1>5. CASE stage' # "failed"
  <2>1. stage # "failed"
    BY <1>1, <1>5, NextAdvances DEF Advances, Goes, Counts, Fails, StageInv
  <2>2. GraphInv' /\ WalkInv' /\ AssemblyInv'
    BY <1>1, <1>5, <2>1, GraphStep, WalkStep, AssemblyStep
  <2>3. TablesInv'
    BY <1>1, <2>1, <2>2, TablesStep
  <2>4. QED
    BY <1>2, <1>3, <2>2, <2>3 DEF Inv
<1>6. QED
  BY <1>4, <1>5

LEMMA Invariant == Spec => []Inv
<1>1. QED
  BY Initially, Inductive, PTL DEF Spec

(* compile.go 236-289, cova/link.go 106-213: for every program, the checks *)
(* that repeat what an earlier stage ensured refuse nothing.               *)
THEOREM NoIdleRefusal == Spec => []LaterChecksPass
<1>1. Inv => LaterChecksPass
  BY DEF Inv, LaterChecksPass, Idle
<1>2. QED
  BY <1>1, Invariant, PTL

-----------------------------------------------------------------------------
(* What a program that links has been through.                             *)

LEMMA LinkedStage ==
  ASSUME Inv, stage = "linked"
  PROVE  /\ StageInv /\ SymbolsInv /\ LayoutInv /\ BlocksInv /\ GraphInv /\ WalkInv
         /\ AssemblyInv /\ TablesInv /\ AllBound
         /\ stage \notin BeforeAssemble \cup {"failed"}
         /\ stage \notin {"structs", "failed"}
         /\ Compiled = Len(source.functions) /\ Assembled = Len(source.functions)
         /\ Described = Len(program.functions)
BY DEF Inv, AllBound, Compiled, Assembled, Described, BeforeTables, BeforeAssemble,
       BeforeCompile

LEMMA WrittenIsFunction ==
  ASSUME StageInv, SymbolsInv, AllBound, NEW name \in Names
  PROVE  \E i \in 1 .. Len(source.functions) :
           /\ Fun(i) = Written(name) /\ Fun(i).name = name
           /\ \A j \in 1 .. Len(source.functions) : Fun(j).name = name => j = i
<1>1. DOMAIN source.functions = 1 .. Len(source.functions)
  BY SourceLists DEF StageInv
<1>2. \E f \in Range(source.functions) : f.name = name
  BY DEF Names, Range
<1>3. Written(name) \in Range(source.functions) /\ Written(name).name = name
  BY <1>2 DEF Written
<1>4. PICK i \in 1 .. Len(source.functions) : Fun(i) = Written(name)
  BY <1>1, <1>3 DEF Range, Fun
<1>5. NamesInv /\ FunctionsRead = Len(source.functions)
  BY DEF SymbolsInv, AllBound, FunctionsRead, BeforeCompile
<1>6. QED
  BY <1>3, <1>4, <1>5 DEF NamesInv

LEMMA NamedFunction ==
  ASSUME StageInv, NEW i \in 1 .. Len(source.functions)
  PROVE  Fun(i).name \in Names
BY SourceLists DEF StageInv, Names, Fun

LEMMA HostBinding ==
  ASSUME StageInv, SymbolsInv, AllBound, NEW d \in Externs
  PROVE  /\ symbols[d.name].scope = "extern"
         /\ symbols[d.name].slot = d.slot
         /\ symbols[d.name].params = ParamTypes(d.params)
<1>1. DOMAIN source.decls = 1 .. Len(source.decls)
  BY SourceLists DEF StageInv
<1>2. PICK i \in 1 .. Len(source.decls) : d = Decl(i) /\ d.kind = "function"
  BY <1>1 DEF Externs, Range, Decl
<1>3. BindingsInv /\ DeclsRead = Len(source.decls)
  BY DEF SymbolsInv, AllBound, DeclsRead, BeforeCompile
<1>4. QED
  BY <1>2, <1>3 DEF BindingsInv

LEMMA ParamTypesLength ==
  ASSUME NEW params, IsList(params)
  PROVE  Len(ParamTypes(params)) = Len(params)
<1>1. Len(params) \in Nat /\ DOMAIN params = 1 .. Len(params)
  BY Lists
<1>2. QED
  BY <1>1 DEF ParamTypes

LEMMA Validated == Inv => BodiesValidated
<1> SUFFICES ASSUME Inv, stage = "linked",
                    NEW name \in Names, NEW called \in CalledBy(name)
             PROVE  /\ called \in Names \/ \E f \in Externs : f.name = called
                    /\ \A k \in DOMAIN Written(name).body :
                         LET cell == Written(name).body[k]
                         IN  cell.op = "call" /\ cell.name = called =>
                               cell.args = Len((IF called \in Names THEN Written(called)
                                                ELSE Host(called)).params)
  BY DEF BodiesValidated
<1>1. /\ StageInv /\ SymbolsInv /\ BlocksInv /\ AllBound
      /\ Compiled = Len(source.functions)
  BY LinkedStage
<1>2. PICK i \in 1 .. Len(source.functions) : Fun(i) = Written(name)
  BY <1>1, WrittenIsFunction
<1> DEFINE body == Fun(i).body
<1>3. DOMAIN body = 1 .. Len(body)
  BY <1>1, FunctionLists, Lists
<1>4. \A k \in 1 .. Len(body) : body[k].op = "call" => ~ CallRefused(body[k])
  <2>1. BlockIsOf(i)
    BY <1>1 DEF BlocksInv, AllBound
  <2>2. QED
    BY <2>1 DEF BlockIsOf
<1>5. PICK k \in 1 .. Len(body) : body[k].op = "call" /\ body[k].name = called
  BY <1>2, <1>3 DEF CalledBy
<1>6. called \in Functions
  BY <1>4, <1>5 DEF CallRefused
<1>7. called \in Names \/ \E f \in Externs : f.name = called
  BY <1>1, <1>6, FunctionsBound, NamedFunction
<1> DEFINE written == IF called \in Names THEN Written(called) ELSE Host(called)
<1>8. Len(symbols[called].params) = Len(written.params)
  <2>1. CASE called \in Names
    <3>1. PICK j \in 1 .. Len(source.functions) :
            Fun(j) = Written(called) /\ Fun(j).name = called
      BY <1>1, <2>1, WrittenIsFunction
    <3>2. symbols[called].params = ParamTypes(Fun(j).params)
      BY <1>1, <3>1, FunctionsBound
    <3>3. IsList(Fun(j).params)
      BY <1>1, FunctionLists
    <3>4. QED
      BY <2>1, <3>1, <3>2, <3>3, ParamTypesLength
  <2>2. CASE called \notin Names
    <3>1. Host(called) \in Externs /\ Host(called).name = called
      BY <1>7, <2>2 DEF Host
    <3>2. symbols[called].params = ParamTypes(Host(called).params)
      BY <1>1, <3>1, HostBinding
    <3>3. IsList(Host(called).params)
      BY <1>1, <3>1, SourceLists DEF StageInv, IsSource, Externs
    <3>4. QED
      BY <2>2, <3>2, <3>3, ParamTypesLength
  <2>3. QED
    BY <2>1, <2>2
<1> HIDE DEF body, written
<1>9. ASSUME NEW m \in 1 .. Len(body), body[m].op = "call", body[m].name = called
      PROVE  body[m].args = Len(written.params)
  BY <1>4, <1>8, <1>9 DEF CallRefused
<1>10. \A m \in DOMAIN body : body[m].op = "call" /\ body[m].name = called =>
         body[m].args = Len(written.params)
  BY <1>3, <1>9
<1>11. QED
  BY <1>2, <1>7, <1>10, Zenon DEF body, written

(* LANGUAGE.md 251, compile.go 763-771: whatever the program, once it has   *)
(* linked every call in it, in the functions that are dropped too, names a *)
(* function and passes as many arguments as that one is declared with.     *)
THEOREM CallsAreValidated == Spec => []BodiesValidated
<1>1. QED
  BY Validated, Invariant, PTL

-----------------------------------------------------------------------------
(* The functions that a run can get to are kept, and described.            *)

LEMMA NeededIsKept ==
  ASSUME Inv, stage = "linked", NEW name \in Needed
  PROVE  \E i \in 1 .. Len(source.functions) :
           Fun(i) = Written(name) /\ IdOf(i) \in Visited
<1> DEFINE Kept == { n \in Names : \E i \in 1 .. Len(source.functions) :
                                     Fun(i).name = n /\ IdOf(i) \in Visited }
<1>1. /\ StageInv /\ SymbolsInv /\ BlocksInv /\ GraphInv /\ WalkInv /\ AllBound
      /\ stage \notin BeforeAssemble \cup {"failed"}
      /\ Compiled = Len(source.functions)
  BY LinkedStage
<1>2. Closed(Visited)
  BY <1>1 DEF GraphInv, VisitedIsClosed
<1>3. EntryName \in Kept
  <2>1. PICK i \in 1 .. Len(source.functions) : Fun(i).name = EntryName
    BY <1>1, EntryIsKept
  <2>2. IdOf(i) \in Visited
    BY <1>1, <2>1, EntryIsKept DEF IdOf, EntryFunction
  <2>3. QED
    BY <1>1, <2>1, <2>2, NamedFunction
<1>4. ASSUME NEW n \in Kept, NEW c \in CalledBy(n) \cap Names
      PROVE  c \in Kept
  <2>1. PICK i \in 1 .. Len(source.functions) : Fun(i).name = n /\ IdOf(i) \in Visited
    OBVIOUS
  <2>2. Written(n) = Fun(i)
    BY <1>1, <2>1, WrittenIsFunction
  <2>3. DOMAIN Fun(i).body = 1 .. Len(Fun(i).body)
    BY <1>1, FunctionLists, Lists
  <2>4. PICK k \in 1 .. Len(Fun(i).body) :
          Fun(i).body[k].op = "call" /\ Fun(i).body[k].name = c
    BY <2>2, <2>3 DEF CalledBy
  <2>5. PICK j \in 1 .. Len(source.functions) : Fun(j).name = c
    BY <1>1, WrittenIsFunction
  <2>6. IdOf(j) \in Callees(IdOf(i))
    BY <1>1, <2>4, <2>5, CalleesAreFunctions
  <2>7. IdOf(j) \in Visited
    BY <1>2, <2>1, <2>6 DEF Closed
  <2>8. QED
    BY <2>5, <2>7
<1> HIDE DEF Kept
<1>5. Kept \in SUBSET Names /\ \A n \in Kept : CalledBy(n) \cap Names \subseteq Kept
  <2>1. Kept \subseteq Names
    BY DEF Kept
  <2>2. QED
    BY <1>4, <2>1
<1>6. name \in Kept /\ name \in Names
  BY <1>3, <1>5, Zenon DEF Needed
<1>7. PICK i \in 1 .. Len(source.functions) : Fun(i).name = name /\ IdOf(i) \in Visited
  BY <1>6 DEF Kept
<1>8. Fun(i) = Written(name)
  BY <1>1, <1>6, <1>7, WrittenIsFunction
<1>9. QED
  BY <1>7, <1>8

LEMMA KeptIsDescribed ==
  ASSUME Inv, stage = "linked",
         NEW i \in 1 .. Len(source.functions), IdOf(i) \in Visited
  PROVE  \E d \in Range(linked.functions) :
           LET f == Fun(i)
               layout == FrameLayout(ParamTypes(f.params) \o f.locals)
           IN  /\ d.paramStart \in Nat /\ d.paramCount = Len(f.params)
               /\ d.paramStart + d.paramCount <= Len(linked.paramKinds)
               /\ d.result = f.result
               /\ d.frame = layout.size /\ d.frame <= linked.frameByteSize
               /\ \A m \in 1 .. Len(f.params) :
                    /\ linked.paramKinds[d.paramStart + m] = f.params[m].type
                    /\ linked.paramOffsets[d.paramStart + m] = layout.offsets[m]
<1> DEFINE f == Fun(i)
           layout == FrameLayout(ParamTypes(f.params) \o f.locals)
<1>1. /\ StageInv /\ SymbolsInv /\ LayoutInv /\ BlocksInv /\ AssemblyInv /\ TablesInv
      /\ AllBound /\ stage # "failed"
      /\ Compiled = Len(source.functions) /\ Assembled = Len(source.functions)
      /\ Described = Len(program.functions)
  BY LinkedStage
<1>2. /\ AssembledUpTo(Len(source.functions), program)
      /\ DescribedUpTo(Len(program.functions), linked)
      /\ linked.frameByteSize = program.frameBytes
  BY <1>1 DEF AssemblyInv, TablesInv
<1>3. PICK k \in 1 .. Len(program.functions) : program.functions[k].id = IdOf(i)
  BY <1>2 DEF AssembledUpTo
<1> DEFINE g == program.functions[k]
           d == linked.functions[k]
<1>4. /\ g.frame = layout.size /\ g.result = f.result
      /\ g.params = ParamTypes(f.params) /\ Len(g.params) = Len(f.params)
      /\ \A m \in 1 .. Len(f.params) : g.offsets[m] = layout.offsets[m]
  <2>1. PICK j \in 1 .. Assembled :
          LET h == Fun(j)
              of == program.functions[k]
              laid == FrameLayout(ParamTypes(h.params) \o h.locals)
          IN  /\ IdOf(j) \in Visited /\ of.id = IdOf(j)
              /\ of.frame = laid.size /\ of.result = h.result
              /\ of.params = ParamTypes(h.params)
              /\ IsList(of.params) /\ Len(of.params) = Len(h.params)
              /\ IsList(of.offsets) /\ Len(of.offsets) = Len(h.params)
              /\ \A m \in 1 .. Len(h.params) : of.offsets[m] = laid.offsets[m]
    <3> HIDE DEF f, layout, g, d
    <3>1. k \in 1 .. Len(program.functions)
      BY <1>3
    <3>2. QED
      BY <1>1, <3>1, TextFunctions, Zenon
  <2>2. j = i
    <3> HIDE DEF f, layout, g, d
    <3>1. j \in 1 .. Len(source.functions)
      BY <1>1, <2>1
    <3>2. IdOf(j) = IdOf(i)
      BY <1>3, <2>1
    <3>3. \A m, n \in 1 .. Len(source.functions) : IdOf(m) = IdOf(n) => m = n
      BY <1>1, FunctionsBound
    <3>4. QED
      BY <3>1, <3>2, <3>3
  <2>3. QED
    BY <2>1, <2>2
<1>5. g.frame <= program.frameBytes
  BY <1>2 DEF AssembledUpTo
<1>6. /\ d.frame = g.frame /\ d.result = g.result
      /\ d.paramCount = Len(g.params) /\ d.paramStart \in Nat
      /\ d.paramStart + d.paramCount <= Len(linked.paramKinds)
      /\ \A m \in 1 .. Len(g.params) :
           /\ linked.paramKinds[d.paramStart + m] = g.params[m]
           /\ linked.paramOffsets[d.paramStart + m] = g.offsets[m]
  BY <1>2 DEF DescribedUpTo, DescribesFunction
<1>7. d \in Range(linked.functions)
  BY <1>2, Lists DEF DescribedUpTo
<1>8. \A m \in 1 .. Len(f.params) : ParamTypes(f.params)[m] = f.params[m].type
  <2>1. DOMAIN f.params = 1 .. Len(f.params)
    BY <1>1, FunctionLists, Lists
  <2>2. QED
    BY <2>1 DEF ParamTypes
<1> HIDE DEF f, layout, g, d
<1>9. /\ d.paramCount = Len(f.params) /\ d.result = f.result
      /\ d.frame = layout.size /\ d.frame <= linked.frameByteSize
  BY <1>2, <1>4, <1>5, <1>6
<1>10. \A m \in 1 .. Len(f.params) :
         /\ linked.paramKinds[d.paramStart + m] = f.params[m].type
         /\ linked.paramOffsets[d.paramStart + m] = layout.offsets[m]
  BY <1>4, <1>6, <1>8
<1>11. QED
  BY <1>6, <1>7, <1>9, <1>10, Zenon DEF f, layout

(* A slice of a list. *)
LEMMA Slice ==
  ASSUME NEW list, IsList(list), NEW start \in Nat, NEW count \in Nat,
         start + count <= Len(list)
  PROVE  SubSeq(list, start + 1, start + count)
           = [m \in 1 .. count |-> list[start + m]]
<1>1. list \in Seq(Range(list)) /\ Len(list) \in Nat
  BY Lists DEF IsList
<1>2. \A m \in 1 .. count : list[start + m] \in Range(list)
  BY <1>1, Lists
<1> DEFINE slice == SubSeq(list, start + 1, start + count)
<1> DEFINE end == start + count
           S == Range(list)
<1>3. slice \in Seq(Range(list)) /\ Len(slice) = count
      /\ \A m \in 1 .. count : slice[m] = list[start + m]
  <2>1. list \in Seq(S) /\ end \in Nat /\ end <= Len(list) /\ end - start = count
    BY <1>1
  <2> HIDE DEF S, end
  <2>2. SubSeq(list, start + 1, end) \in Seq(S)
    BY <2>1
  <2>3. Len(SubSeq(list, start + 1, end)) = count
    BY <2>1
  <2>4. \A m \in 1 .. count : SubSeq(list, start + 1, end)[m] = list[start + m]
    BY <2>1
  <2>5. QED
    BY <2>2, <2>3, <2>4 DEF end, S
<1>4. DOMAIN slice = 1 .. count /\ slice = [m \in DOMAIN slice |-> slice[m]]
  BY <1>3
<1>5. QED
  BY <1>3, <1>4

LEMMA TablesMatch == Inv => ParamTablesMatch
<1> SUFFICES ASSUME Inv, stage = "linked", NEW name \in Needed
             PROVE  \E d \in Range(linked.functions) :
                      LET written == ParamTypes(Written(name).params)
                          kinds == SubSeq(linked.paramKinds, d.paramStart + 1,
                                          d.paramStart + d.paramCount)
                          offsets == SubSeq(linked.paramOffsets, d.paramStart + 1,
                                            d.paramStart + d.paramCount)
                      IN  /\ d.paramStart + d.paramCount <= Len(linked.paramKinds)
                          /\ Len(linked.paramOffsets) = Len(linked.paramKinds)
                          /\ kinds = written
                          /\ d.result = Written(name).result
                          /\ \A i \in DOMAIN written :
                               /\ offsets[i] % types[written[i]].alignment = 0
                               /\ offsets[i] + types[written[i]].size <=
                                    IF i = Len(written) THEN d.frame ELSE offsets[i + 1]
                          /\ d.frame <= linked.frameByteSize
  BY DEF ParamTablesMatch
<1>1. StageInv /\ LayoutInv /\ TablesInv /\ stage \notin {"structs", "failed"}
      /\ Described = Len(program.functions)
  BY LinkedStage
<1>2. PICK n \in 1 .. Len(source.functions) :
        Fun(n) = Written(name) /\ IdOf(n) \in Visited
  BY NeededIsKept
<1> DEFINE f == Fun(n)
           layout == FrameLayout(ParamTypes(f.params) \o f.locals)
           written == ParamTypes(f.params)
<1>3. PICK d \in Range(linked.functions) :
        /\ d.paramStart \in Nat /\ d.paramCount = Len(f.params)
        /\ d.paramStart + d.paramCount <= Len(linked.paramKinds)
        /\ d.result = f.result
        /\ d.frame = layout.size /\ d.frame <= linked.frameByteSize
        /\ \A m \in 1 .. Len(f.params) :
             /\ linked.paramKinds[d.paramStart + m] = f.params[m].type
             /\ linked.paramOffsets[d.paramStart + m] = layout.offsets[m]
  BY <1>2, KeptIsDescribed
<1> DEFINE kinds == SubSeq(linked.paramKinds, d.paramStart + 1, d.paramStart + d.paramCount)
           offsets == SubSeq(linked.paramOffsets, d.paramStart + 1,
                             d.paramStart + d.paramCount)
<1>4. /\ IsList(linked.paramKinds) /\ IsList(linked.paramOffsets)
      /\ Len(linked.paramOffsets) = Len(linked.paramKinds)
  BY <1>1 DEF TablesInv, DescribedUpTo
<1>5. /\ Len(f.params) \in Nat /\ layout.size \in Nat
      /\ \A m \in 1 .. Len(f.params) :
           LET type == types[f.params[m].type]
           IN  /\ layout.offsets[m] % type.alignment = 0
               /\ layout.offsets[m] + type.size <= layout.size
               /\ m < Len(f.params) =>
                    layout.offsets[m] + type.size <= layout.offsets[m + 1]
  BY <1>1, FrameIsLaid
<1>6. written = [m \in 1 .. Len(f.params) |-> f.params[m].type]
  <2>1. DOMAIN f.params = 1 .. Len(f.params)
    BY <1>1, FunctionLists, Lists
  <2>2. QED
    BY <2>1 DEF ParamTypes
<1> HIDE DEF f, layout, written
<1> DEFINE count == Len(f.params)
           start == d.paramStart
<1>7. count \in Nat /\ start \in Nat /\ start + count <= Len(linked.paramKinds)
      /\ d.paramCount = count
  BY <1>3, <1>5
<1>8. /\ kinds = [m \in 1 .. count |-> linked.paramKinds[start + m]]
      /\ offsets = [m \in 1 .. count |-> linked.paramOffsets[start + m]]
  <2> HIDE DEF count, start
  <2>1. /\ SubSeq(linked.paramKinds, start + 1, start + count)
             = [m \in 1 .. count |-> linked.paramKinds[start + m]]
        /\ SubSeq(linked.paramOffsets, start + 1, start + count)
             = [m \in 1 .. count |-> linked.paramOffsets[start + m]]
    BY <1>4, <1>7, Slice
  <2>2. QED
    BY <1>7, <2>1 DEF start
<1> HIDE DEF kinds, offsets
<1>9. kinds = written
  <2>1. \A m \in 1 .. count : linked.paramKinds[start + m] = f.params[m].type
    BY <1>3
  <2>2. QED
    BY <1>6, <1>8, <2>1
<1>10. \A m \in 1 .. count : offsets[m] = layout.offsets[m]
  BY <1>3, <1>8
<1>11. Len(written) = count /\ DOMAIN written = 1 .. count
       /\ \A m \in 1 .. count : written[m] = f.params[m].type
  <2> HIDE DEF count
  <2>1. written = [m \in 1 .. count |-> f.params[m].type]
    BY <1>6 DEF count
  <2>2. QED
    BY <1>7, <2>1
<1>12. \A i \in DOMAIN written :
         /\ offsets[i] % types[written[i]].alignment = 0
         /\ offsets[i] + types[written[i]].size <=
              IF i = Len(written) THEN d.frame ELSE offsets[i + 1]
  <2> SUFFICES ASSUME NEW i \in 1 .. count
               PROVE  /\ offsets[i] % types[written[i]].alignment = 0
                      /\ offsets[i] + types[written[i]].size <=
                           IF i = Len(written) THEN d.frame ELSE offsets[i + 1]
    BY <1>11
  <2>1. /\ layout.offsets[i] % types[written[i]].alignment = 0
        /\ layout.offsets[i] + types[written[i]].size <= layout.size
        /\ i < count => layout.offsets[i] + types[written[i]].size <= layout.offsets[i + 1]
    BY <1>5, <1>11
  <2> HIDE DEF count
  <2>2. offsets[i] = layout.offsets[i]
    BY <1>10
  <2>3. CASE i = count
    BY <1>3, <1>11, <2>1, <2>2, <2>3
  <2>4. CASE i # count
    <3>1. i < count /\ i + 1 \in 1 .. count
      BY <1>7, <2>4
    <3>2. offsets[i + 1] = layout.offsets[i + 1]
      BY <1>10, <3>1
    <3>3. QED
      BY <1>11, <2>1, <2>2, <2>4, <3>1, <3>2
  <2>5. QED
    BY <2>3, <2>4
<1>13. /\ d.paramStart + d.paramCount <= Len(linked.paramKinds)
       /\ d.result = f.result /\ d.frame <= linked.frameByteSize
  BY <1>3
<1>14. f = Written(name) /\ written = ParamTypes(Written(name).params)
  BY <1>2 DEF f, written
<1>15. QED
  BY <1>4, <1>9, <1>12, <1>13, <1>14, Zenon DEF kinds, offsets

(* compile.go 525-542, cova/link.go 149-165: whatever the program, the     *)
(* descriptor of a function that a run can get to leads to slices of the   *)
(* two parameter tables that hold the kinds of its parameters, at aligned  *)
(* places of its frame that do not overlap, and the frame is no larger     *)
(* than the program says its largest is.                                   *)
THEOREM SlicesAreOwn == Spec => []ParamTablesMatch
<1>1. QED
  BY TablesMatch, Invariant, PTL

-----------------------------------------------------------------------------
(* What the text does: the blocks lie in it one after another with their   *)
(* jumps moved, the calls in it are those to be patched, and the linker    *)
(* turns them into calls through the descriptors.                          *)

HoldsBlock(k, text) ==
  LET f == text.functions[k]
      code == blocks[f.id].code
  IN  /\ f.address \in Nat
      /\ f.address + Len(code) <= Len(text.text)
      /\ \A m \in 1 .. Len(code) :
           text.text[f.address + m] = JumpsMoved(code, f.address)[m]

CallTo(id) == [op |-> "call", operand |-> id]

TextOf(text) ==
  /\ IsList(text.text)
  /\ \A k \in 1 .. Len(text.functions) : HoldsBlock(k, text)
  /\ \A k, m \in 1 .. Len(text.functions) :
       text.functions[k].id = text.functions[m].id => k = m
  /\ \A k \in 1 .. Len(text.patches) :
       /\ text.patches[k].pos \in 1 .. Len(text.text)
       /\ text.text[text.patches[k].pos] = CallTo(text.patches[k].id)
  /\ \A p \in 1 .. Len(text.text) :
       text.text[p].op = "call" =>
         \E k \in 1 .. Len(text.patches) : text.patches[k].pos = p

TextInv == stage # "failed" => TextOf(program)

IndicesInv ==
  \A k \in 1 .. Len(linked.functions) :
    LET f == program.functions[k]
    IN  linked.functions[k].body = f.address /\ linked.index[f.id] = k - 1

IsPatched(p) ==
  /\ program.text[p].op = "call"
  /\ linked.text[p] = CallTo(linked.index[program.text[p].operand])

PatchesInv ==
  /\ IsList(linked.text) /\ Len(linked.text) = Len(program.text)
  /\ \A p \in 1 .. Len(program.text) :
       linked.text[p] = program.text[p] \/ IsPatched(p)
  /\ \A k \in 1 .. Len(program.patches) : k < at => IsPatched(program.patches[k].pos)

LinkedInv ==
  stage # "failed" =>
  /\ IndicesInv
  /\ stage \in {"calls", "linked"} => PatchesInv
  /\ stage = "linked" => /\ at > Len(program.patches)
                         /\ linked.entryPoint = linked.index[EntryFunction]

CodeInv == TextInv /\ LinkedInv

(* The cells of a block that jump or call. *)
LEMMA BlockCells ==
  ASSUME StageInv, NEW i \in 1 .. Len(source.functions), BlockIsOf(i)
  PROVE  LET code == blocks[IdOf(i)].code
         IN  /\ IsList(code) /\ Len(code) \in Nat
             /\ \A m \in 1 .. Len(code) :
                  /\ code[m].op = "call" => code[m] = CallTo(code[m].operand)
                  /\ code[m].op = "jump" => DOMAIN code[m] = {"op", "operand"}
<1> DEFINE code == blocks[IdOf(i)].code
           body == Fun(i).body
<1>1. /\ IsList(code) /\ Len(body) <= Len(code)
      /\ \A k \in 1 .. Len(body) : ControlCell(Fun(i), k, code[k])
      /\ \A k \in Len(body) + 1 .. Len(code) : code[k].op \notin {"call", "jump"}
  BY DEF BlockIsOf
<1>2. Len(code) \in Nat /\ Len(body) \in Nat
  BY <1>1, FunctionLists, Lists
<1> HIDE DEF code
<1>3. ASSUME NEW m \in 1 .. Len(body)
      PROVE  /\ code[m].op = "call" => code[m] = CallTo(code[m].operand)
             /\ code[m].op = "jump" => DOMAIN code[m] = {"op", "operand"}
  <2>1. ControlCell(Fun(i), m, code[m])
    BY <1>1
  <2>2. CASE body[m].op = "call"
    <3>1. code[m] = CallCell(body[m])
      BY <2>1, <2>2 DEF ControlCell
    <3>2. \/ code[m] = [op |-> "callextern", operand |-> symbols[body[m].name].slot]
          \/ code[m] = [op |-> "call", operand |-> symbols[body[m].name].id]
      BY <3>1 DEF CallCell
    <3>3. QED
      BY <3>2 DEF CallTo
  <2>3. CASE body[m].op = "jump"
    <3>1. code[m] = [op |-> "jump", operand |-> body[m].to]
      BY <2>1, <2>3 DEF ControlCell
    <3>2. QED
      BY <3>1
  <2>4. CASE body[m].op \notin {"call", "jump"}
    <3>1. code[m].op \notin {"call", "jump"}
      BY <2>1, <2>4 DEF ControlCell
    <3>2. QED
      BY <3>1
  <2>5. QED
    BY <2>2, <2>3, <2>4
<1> HIDE DEF body
<1>4. \A m \in 1 .. Len(code) : m \in 1 .. Len(body) \/ m \in Len(body) + 1 .. Len(code)
  BY <1>2
<1>5. \A m \in 1 .. Len(code) :
        /\ code[m].op = "call" => code[m] = CallTo(code[m].operand)
        /\ code[m].op = "jump" => DOMAIN code[m] = {"op", "operand"}
  BY <1>1, <1>3, <1>4
<1>6. QED
  BY <1>1, <1>2, <1>5 DEF code

(* Moving code changes where its jumps lead, and nothing else. *)
LEMMA CodeMoved ==
  ASSUME NEW code, IsList(code), NEW base,
         \A m \in 1 .. Len(code) : code[m].op = "jump" => DOMAIN code[m] = {"op", "operand"}
  PROVE  LET moved == JumpsMoved(code, base)
         IN  /\ IsList(moved) /\ Len(moved) = Len(code)
             /\ \A m \in 1 .. Len(code) :
                  /\ moved[m].op = code[m].op
                  /\ code[m].op # "jump" => moved[m] = code[m]
                  /\ code[m].op = "jump" => moved[m].operand = code[m].operand + base
<1> DEFINE moved == JumpsMoved(code, base)
           S == { moved[m] : m \in 1 .. Len(code) }
<1>1. Len(code) \in Nat /\ DOMAIN code = 1 .. Len(code)
  BY Lists
<1>2. moved = [m \in 1 .. Len(code) |->
                 IF code[m].op = "jump" THEN [code[m] EXCEPT !.operand = @ + base]
                 ELSE code[m]]
  BY <1>1 DEF JumpsMoved
<1>3. \A m \in 1 .. Len(code) :
        /\ moved[m].op = code[m].op
        /\ code[m].op # "jump" => moved[m] = code[m]
        /\ code[m].op = "jump" => moved[m].operand = code[m].operand + base
  BY <1>2
<1>4. moved = [m \in 1 .. Len(code) |-> moved[m]]
  BY <1>2
<1> HIDE DEF moved
<1>5. moved \in Seq(S) /\ Len(moved) = Len(code)
  BY <1>1, <1>4
<1> HIDE DEF S
<1>6. IsList(moved)
  BY <1>5, ListIsSeq
<1>7. QED
  BY <1>3, <1>5, <1>6 DEF moved

(* A kept block is added to the text. *)
LEMMA TextGrows ==
  ASSUME StageInv, SymbolsInv, BlocksInv, AllBound, Compiled = Len(source.functions),
         NEW n \in 1 .. Len(source.functions), AssembledUpTo(n - 1, program),
         TextOf(program), program' = WithBlock(blocks[IdOf(n)])
  PROVE  TextOf(program')
<1> DEFINE block == blocks[IdOf(n)]
           code == block.code
           base == Len(program.text)
           moved == JumpsMoved(code, base)
           patches == PatchesMoved(block.patches, base)
           f == Moved(block, base)
           old == program
           new == program'
<1>1. /\ new.text = old.text \o moved
      /\ new.functions = Append(old.functions, f)
      /\ new.patches = old.patches \o patches
      /\ f.id = block.binding.id /\ f.address = base
  BY DEF WithBlock, Moved
<1>2. BlockIsOf(n) /\ \A i \in 1 .. Len(source.functions) : BlockIsOf(i)
  BY DEF BlocksInv, AllBound
<1>3. f.id = IdOf(n)
  BY <1>1, <1>2 DEF BlockIsOf, IdOf
<1>4. /\ IsList(code) /\ Len(code) \in Nat /\ IsList(block.patches)
      /\ \A m \in 1 .. Len(code) :
           /\ code[m].op = "call" => code[m] = CallTo(code[m].operand)
           /\ code[m].op = "jump" => DOMAIN code[m] = {"op", "operand"}
      /\ PatchesAreCalls(code, block.patches)
  BY <1>2, BlockCells DEF BlockIsOf
<1>5. /\ IsList(moved) /\ Len(moved) = Len(code)
      /\ \A m \in 1 .. Len(code) :
           moved[m].op = code[m].op /\ (code[m].op # "jump" => moved[m] = code[m])
  <2> HIDE DEF block
  <2>1. QED
    BY <1>4, CodeMoved
<1>6. /\ IsList(patches) /\ Len(patches) = Len(block.patches)
      /\ Len(block.patches) \in Nat
      /\ \A k \in 1 .. Len(block.patches) :
           /\ patches[k].id = block.patches[k].id
           /\ patches[k].pos = block.patches[k].pos + base
  <2>1. \A k \in 1 .. Len(block.patches) : DOMAIN block.patches[k] = {"pos", "id"}
    BY <1>4 DEF PatchesAreCalls
  <2> DEFINE its == block.patches
  <2>2. IsList(its) /\ \A k \in 1 .. Len(its) : DOMAIN its[k] = {"pos", "id"}
    BY <1>4, <2>1
  <2> HIDE DEF its, base
  <2>3. /\ IsList(PatchesMoved(its, base)) /\ Len(PatchesMoved(its, base)) = Len(its)
        /\ \A k \in 1 .. Len(its) :
             /\ PatchesMoved(its, base)[k].id = its[k].id
             /\ PatchesMoved(its, base)[k].pos = its[k].pos + base
    BY <2>2, PatchIds
  <2>4. Len(its) \in Nat
    BY <2>2, Lists
  <2>5. QED
    BY <2>3, <2>4 DEF its
<1>7. \A k \in 1 .. Len(block.patches) :
        /\ block.patches[k].pos \in 1 .. Len(code)
        /\ code[block.patches[k].pos] = CallTo(block.patches[k].id)
  BY <1>4 DEF PatchesAreCalls
<1>8. \A m \in 1 .. Len(code) :
        code[m].op = "call" =>
          \E k \in 1 .. Len(block.patches) : block.patches[k].pos = m
  BY <1>4 DEF PatchesAreCalls
<1>9. /\ IsList(old.text) /\ IsList(old.functions) /\ IsList(old.patches)
      /\ base \in Nat /\ Len(old.functions) \in Nat /\ Len(old.patches) \in Nat
  BY Lists DEF TextOf, AssembledUpTo
<1> DEFINE size == Len(code)
           count == Len(old.patches)
           added == Len(block.patches)
<1>20. size \in Nat /\ count \in Nat /\ added \in Nat
  BY <1>4, <1>6, <1>9
<1> HIDE DEF moved, patches, f, new
<1>10. /\ IsList(new.text) /\ Len(new.text) = base + size
       /\ \A p \in 1 .. base : new.text[p] = old.text[p]
       /\ \A m \in 1 .. size : new.text[base + m] = moved[m]
  <2> DEFINE a == old.text
             b == new.text
  <2>1. IsList(a) /\ IsList(moved) /\ b = a \o moved
    BY <1>1, <1>5, <1>6, <1>9
  <2>4. Len(a) = base /\ Len(moved) = size
    BY <1>5, <1>6
  <2> HIDE DEF a, b, base, size
  <2>2. /\ IsList(b) /\ Len(b) = Len(a) + Len(moved)
        /\ \A p \in 1 .. Len(a) : b[p] = a[p]
        /\ \A m \in 1 .. Len(moved) : b[Len(a) + m] = moved[m]
    BY <2>1, ConcatLists
  <2>3. /\ IsList(b) /\ Len(b) = base + size
        /\ \A p \in 1 .. base : b[p] = a[p]
        /\ \A m \in 1 .. size : b[base + m] = moved[m]
    BY <2>2, <2>4
  <2>5. QED
    BY <2>3 DEF a, b
<1>11. /\ Len(new.patches) = count + added
       /\ \A k \in 1 .. count : new.patches[k] = old.patches[k]
       /\ \A k \in 1 .. added : new.patches[count + k] = patches[k]
  <2> DEFINE a == old.patches
             b == new.patches
  <2>1. IsList(a) /\ IsList(patches) /\ b = a \o patches
    BY <1>1, <1>5, <1>6, <1>9
  <2>4. Len(a) = count /\ Len(patches) = added
    BY <1>5, <1>6
  <2> HIDE DEF a, b, count, added
  <2>2. /\ Len(b) = Len(a) + Len(patches)
        /\ \A k \in 1 .. Len(a) : b[k] = a[k]
        /\ \A k \in 1 .. Len(patches) : b[Len(a) + k] = patches[k]
    BY <2>1, ConcatLists
  <2>3. /\ Len(b) = count + added
        /\ \A k \in 1 .. count : b[k] = a[k]
        /\ \A k \in 1 .. added : b[count + k] = patches[k]
    BY <2>2, <2>4
  <2>5. QED
    BY <2>3 DEF a, b
<1>21. /\ count + added = Len(new.patches)
       /\ \A k \in 1 .. count : k \in 1 .. Len(new.patches)
       /\ \A k \in 1 .. added : count + k \in 1 .. Len(new.patches)
       /\ \A k \in 1 .. Len(new.patches) :
            k \in 1 .. count \/ \E j \in 1 .. added : k = count + j
  <2> HIDE DEF count, added
  <2>1. \A k \in 1 .. count + added : k \in 1 .. count \/ \E j \in 1 .. added : k = count + j
    <3>1. ASSUME NEW k \in 1 .. count + added, k \notin 1 .. count
          PROVE  \E j \in 1 .. added : k = count + j
      <4>1. k - count \in 1 .. added /\ k = count + (k - count)
        BY <1>20, <3>1
      <4>2. QED
        BY <4>1
    <3>2. QED
      BY <3>1
  <2>2. QED
    BY <1>11, <1>20, <2>1
<1>22. /\ \A p \in 1 .. base : p \in 1 .. Len(new.text)
       /\ \A m \in 1 .. size : base + m \in 1 .. Len(new.text) /\ m + base = base + m
       /\ \A p \in 1 .. Len(new.text) :
            p \in 1 .. base \/ \E m \in 1 .. size : p = base + m
  <2>0. base \in Nat
    BY <1>9
  <2> HIDE DEF base, size
  <2>1. \A p \in 1 .. base + size : p \in 1 .. base \/ \E m \in 1 .. size : p = base + m
    <3>1. ASSUME NEW p \in 1 .. base + size, p \notin 1 .. base
          PROVE  \E m \in 1 .. size : p = base + m
      <4>1. p - base \in 1 .. size /\ p = base + (p - base)
        BY <1>20, <2>0, <3>1
      <4>2. QED
        BY <4>1
    <3>2. QED
      BY <3>1
  <2>2. QED
    BY <1>10, <1>20, <2>0, <2>1
<1>12. /\ Len(new.functions) = Len(old.functions) + 1
       /\ \A k \in 1 .. Len(old.functions) : new.functions[k] = old.functions[k]
       /\ new.functions[Len(old.functions) + 1] = f
  BY <1>1, <1>9, AppendToList
<1> DEFINE last == Len(old.functions) + 1
<1>13. \A k \in 1 .. Len(new.functions) : k \in 1 .. Len(old.functions) \/ k = last
  BY <1>9, <1>12
<1>14. ASSUME NEW k \in 1 .. Len(old.functions)
       PROVE  \E i \in 1 .. n - 1 : old.functions[k].id = IdOf(i)
  <2>1. PICK i \in 1 .. n - 1 :
          old.functions[k] = Moved(blocks[IdOf(i)], old.functions[k].address)
    BY DEF AssembledUpTo
  <2>2. i \in 1 .. Len(source.functions)
    BY SourceLists DEF StageInv
  <2>3. blocks[IdOf(i)].binding = symbols[Fun(i).name]
    BY <1>2, <2>2 DEF BlockIsOf
  <2>4. old.functions[k].id = blocks[IdOf(i)].binding.id
    BY <2>1 DEF Moved
  <2>5. QED
    BY <2>3, <2>4 DEF IdOf
<1>15. ASSUME NEW k \in 1 .. Len(new.functions)
       PROVE  HoldsBlock(k, new)
  <2>1. CASE k = last
    <3>1. new.functions[k] = f
      BY <1>12, <2>1
    <3>2. \A m \in 1 .. Len(code) : new.text[base + m] = JumpsMoved(code, base)[m]
      BY <1>10 DEF moved
    <3>3. base + Len(code) <= Len(new.text)
      <4>1. base \in Nat
        BY <1>9
      <4>2. base + size <= Len(new.text)
        <5> HIDE DEF base, size
        <5>1. QED
          BY <1>10, <1>20, <4>1
      <4>3. QED
        BY <4>2
    <3>4. blocks[new.functions[k].id].code = code /\ new.functions[k].address = base
      BY <1>1, <1>3, <3>1
    <3> HIDE DEF code, base, block
    <3>5. QED
      BY <1>9, <3>2, <3>3, <3>4 DEF HoldsBlock
  <2>2. CASE k \in 1 .. Len(old.functions)
    <3> DEFINE g == old.functions[k]
               its == blocks[g.id].code
    <3>1. new.functions[k] = g
      BY <1>12, <2>2
    <3>2. /\ g.address \in Nat /\ g.address + Len(its) <= base
          /\ \A m \in 1 .. Len(its) : old.text[g.address + m] = JumpsMoved(its, g.address)[m]
      BY <2>2 DEF TextOf, HoldsBlock
    <3>3. Len(its) \in Nat
      <4>1. PICK i \in 1 .. n - 1 : g.id = IdOf(i)
        BY <1>14, <2>2
      <4>2. i \in 1 .. Len(source.functions)
        BY SourceLists DEF StageInv
      <4>3. IsList(blocks[IdOf(i)].code)
        BY <1>2, <4>2 DEF BlockIsOf
      <4>4. QED
        BY <4>1, <4>3, Lists
    <3> DEFINE start == g.address
               length == Len(its)
    <3>4. blocks[new.functions[k].id].code = its /\ new.functions[k].address = start
      BY <3>1
    <3>5. start \in Nat /\ length \in Nat /\ base \in Nat /\ start + length <= base
      BY <1>9, <3>2, <3>3
    <3>6. base <= Len(new.text) /\ Len(new.text) \in Nat
      <4> HIDE DEF base, size, code
      <4>1. QED
        BY <1>10, <1>20, <3>5
    <3>7. \A m \in 1 .. length : old.text[start + m] = JumpsMoved(its, start)[m]
      BY <3>2
    <3> HIDE DEF its, start, length, base, size, code
    <3>8. \A m \in 1 .. length : start + m \in 1 .. base
      BY <3>5
    <3>9. \A m \in 1 .. length : new.text[start + m] = JumpsMoved(its, start)[m]
      BY <1>10, <3>7, <3>8
    <3>10. start + length <= Len(new.text)
      BY <3>5, <3>6
    <3>11. QED
      BY <3>4, <3>5, <3>9, <3>10 DEF HoldsBlock, length
  <2>3. QED
    BY <1>13, <2>1, <2>2
<1>16. ASSUME NEW k \in 1 .. Len(new.functions), NEW m \in 1 .. Len(new.functions),
              new.functions[k].id = new.functions[m].id
       PROVE  k = m
  <2>1. ASSUME NEW j \in 1 .. Len(old.functions)
        PROVE  new.functions[j].id # f.id
    <3>1. PICK i \in 1 .. n - 1 : old.functions[j].id = IdOf(i)
      BY <1>14
    <3>2. i \in 1 .. Len(source.functions) /\ i # n
      BY SourceLists DEF StageInv
    <3>3. IdOf(i) # IdOf(n)
      BY <3>2, FunctionsBound
    <3>4. QED
      BY <1>3, <1>12, <3>1, <3>3
  <2>2. CASE k \in 1 .. Len(old.functions) /\ m \in 1 .. Len(old.functions)
    BY <1>12, <1>16, <2>2 DEF TextOf
  <2>3. CASE k = last /\ m = last
    BY <2>3
  <2>4. CASE k = last /\ m \in 1 .. Len(old.functions)
    BY <1>12, <1>16, <2>1, <2>4
  <2>5. CASE m = last /\ k \in 1 .. Len(old.functions)
    BY <1>12, <1>16, <2>1, <2>5
  <2>6. QED
    BY <1>13, <2>2, <2>3, <2>4, <2>5
<1>17. ASSUME NEW k \in 1 .. Len(new.patches)
       PROVE  /\ new.patches[k].pos \in 1 .. Len(new.text)
              /\ new.text[new.patches[k].pos] = CallTo(new.patches[k].id)
  <2>1. CASE k \in 1 .. count
    <3>1. /\ old.patches[k].pos \in 1 .. base
          /\ old.text[old.patches[k].pos] = CallTo(old.patches[k].id)
      BY <2>1 DEF TextOf
    <3>2. new.patches[k] = old.patches[k]
      BY <1>11, <2>1
    <3>3. /\ old.patches[k].pos \in 1 .. Len(new.text)
          /\ new.text[old.patches[k].pos] = old.text[old.patches[k].pos]
      BY <1>10, <1>22, <3>1
    <3>4. QED
      BY <3>1, <3>2, <3>3
  <2>2. ASSUME NEW j \in 1 .. added, k = count + j
        PROVE  /\ new.patches[k].pos \in 1 .. Len(new.text)
               /\ new.text[new.patches[k].pos] = CallTo(new.patches[k].id)
    <3>1. new.patches[k] = patches[j]
      BY <1>11, <2>2
    <3> DEFINE m == block.patches[j].pos
    <3>2. /\ m \in 1 .. size /\ code[m] = CallTo(block.patches[j].id)
          /\ patches[j].id = block.patches[j].id /\ patches[j].pos = m + base
      BY <1>6, <1>7
    <3>3. moved[m] = code[m]
      <4>1. code[m].op = "call"
        BY <3>2 DEF CallTo
      <4>2. QED
        BY <1>5, <3>2, <4>1
    <3> HIDE DEF m, base, size
    <3>4. /\ m + base = base + m /\ base + m \in 1 .. Len(new.text)
          /\ new.text[base + m] = moved[m]
      BY <1>10, <1>22, <3>2
    <3>5. QED
      BY <3>1, <3>2, <3>3, <3>4
  <2>3. QED
    BY <1>21, <2>1, <2>2
<1>18. ASSUME NEW p \in 1 .. Len(new.text), new.text[p].op = "call"
       PROVE  \E k \in 1 .. Len(new.patches) : new.patches[k].pos = p
  <2>1. CASE p \in 1 .. base
    <3>1. old.text[p].op = "call"
      BY <1>10, <1>18, <2>1
    <3>2. PICK k \in 1 .. count : old.patches[k].pos = p
      BY <2>1, <3>1 DEF TextOf
    <3>3. k \in 1 .. Len(new.patches) /\ new.patches[k] = old.patches[k]
      BY <1>11, <1>21
    <3>4. QED
      BY <3>2, <3>3
  <2>2. ASSUME NEW m \in 1 .. size, p = base + m
        PROVE  \E k \in 1 .. Len(new.patches) : new.patches[k].pos = p
    <3>1. code[m].op = "call"
      <4>1. new.text[p] = moved[m]
        BY <1>10, <2>2
      <4>2. moved[m].op = code[m].op
        BY <1>5
      <4>3. QED
        BY <1>18, <4>1, <4>2
    <3>2. PICK j \in 1 .. added : block.patches[j].pos = m
      BY <1>8, <3>1
    <3>3. count + j \in 1 .. Len(new.patches) /\ new.patches[count + j] = patches[j]
      BY <1>11, <1>21
    <3>4. patches[j].pos = m + base
      BY <1>6, <3>2
    <3>5. m + base = p
      BY <1>22, <2>2
    <3>6. QED
      BY <3>3, <3>4, <3>5
  <2>3. QED
    BY <1>22, <2>1, <2>2
<1> HIDE DEF last, count, added, base, size, code, block
<1>19. QED
  BY <1>10, <1>15, <1>16, <1>17, <1>18 DEF TextOf, new

LEMMA SameText ==
  ASSUME blocks' = blocks
  PROVE  \A text : TextOf(text)' <=> TextOf(text)
BY DEF TextOf, HoldsBlock

LEMMA TextStep ==
  ASSUME Inv, TextInv, [Next]_vars
  PROVE  TextInv'
<1> SUFFICES ASSUME stage' # "failed" PROVE TextOf(program)'
  BY DEF TextInv
<1>1. StageInv /\ SymbolsInv /\ BlocksInv /\ AssemblyInv /\ stage # "failed"
  BY NextAdvances DEF Inv, StageInv, Advances, Fails, Goes, Counts
<1>2. AssembledUpTo(Assembled, program) /\ TextOf(program)
  BY <1>1 DEF AssemblyInv, TextInv
<1>3. CASE AssembleBlock
  <2>1. PICK n \in 1 .. Len(source.functions) :
          /\ stage = "assemble" /\ stage' = "assemble" /\ at = n /\ at' = n + 1
          /\ UNCHANGED << graphVars, source, symbols, blocks, linked >>
          /\ AllBound /\ Compiled = Len(source.functions)
          /\ Assembled = n - 1 /\ Assembled' = n
          /\ \/ IdOf(n) \notin Visited /\ program' = program
             \/ IdOf(n) \in Visited /\ program' = WithBlock(blocks[IdOf(n)])
    BY <1>1, <1>3, BlockAssembled
  <2>2. TextOf(program')
    <3>1. CASE program' = program
      BY <1>2, <3>1
    <3>2. CASE program' = WithBlock(blocks[IdOf(n)])
      <4>1. AssembledUpTo(n - 1, program)
        BY <1>2, <2>1
      <4>2. QED
        BY <1>1, <1>2, <2>1, <3>2, <4>1, TextGrows
    <3>3. QED
      BY <2>1, <3>1, <3>2
  <2>3. QED
    BY <2>1, <2>2, SameText
<1>4. CASE CompileFunction
  <2>1. stage = "compile" /\ program' = program
    BY <1>4 DEF CompileFunction
  <2>2. \A k \in 1 .. Len(program.functions) : FALSE
    BY <1>2, <2>1 DEF AssembledUpTo, Assembled, BeforeAssemble
  <2>3. QED
    BY <1>2, <2>1, <2>2 DEF TextOf
<1>5. CASE ~ AssembleBlock /\ ~ CompileFunction
  BY <1>2, <1>5, AssemblyStays, BlocksStay, SameText
<1>6. QED
  BY <1>3, <1>4, <1>5

-----------------------------------------------------------------------------
(* The linker's indices, and the calls it has patched.                     *)

LEMMA DescriptorIndexed ==
  ASSUME NEW n \in Nat, NEW f, DescribedUpTo(n - 1, linked), IndicesInv,
         n \in 1 .. Len(program.functions), f = program.functions[n],
         \A k \in 1 .. Len(program.functions) :
           program.functions[k].id = f.id => k = n,
         linked' = WithDescriptor(f), program' = program
  PROVE  IndicesInv'
<1>1. /\ IsList(linked.functions) /\ Len(linked.functions) = n - 1
      /\ DOMAIN linked = {"text", "entryPoint", "functions", "paramKinds", "paramOffsets",
                          "frameSize", "frameByteSize", "index", "const", "data",
                          "dataSize", "bssSize"}
      /\ DOMAIN linked.index = { program.functions[k].id : k \in 1 .. n - 1 }
  BY DEF DescribedUpTo
<1> DEFINE d == [body |-> f.address, paramStart |-> ParamStart,
                 paramCount |-> Len(f.params), frame |-> f.frame, result |-> f.result]
           old == linked.functions
           new == linked'.functions
<1>2. /\ new = Append(old, d)
      /\ linked'.index = [id \in DOMAIN linked.index \cup {f.id} |->
                            IF id = f.id THEN Len(linked.functions) ELSE linked.index[id]]
  BY <1>1 DEF WithDescriptor
<1>3. d.body = f.address
  OBVIOUS
<1> HIDE DEF d
<1>4. /\ Len(new) = n /\ new[n] = d
      /\ \A k \in 1 .. n - 1 : new[k] = old[k]
  BY <1>1, <1>2, AppendToList
<1>5. ASSUME NEW k \in 1 .. n
      PROVE  new[k].body = program.functions[k].address
             /\ linked'.index[program.functions[k].id] = k - 1
  <2>1. CASE k = n
    BY <1>1, <1>2, <1>3, <1>4, <2>1
  <2>2. CASE k # n
    <3>1. k \in 1 .. n - 1 /\ k \in 1 .. Len(program.functions)
      BY <2>2
    <3>2. program.functions[k].id # f.id
      BY <2>2, <3>1
    <3>3. program.functions[k].id \in DOMAIN linked.index
      BY <1>1, <3>1
    <3>4. linked'.index[program.functions[k].id] = linked.index[program.functions[k].id]
      BY <1>2, <3>2, <3>3
    <3>5. /\ old[k].body = program.functions[k].address
          /\ linked.index[program.functions[k].id] = k - 1
      BY <1>1, <3>1 DEF IndicesInv
    <3>6. QED
      BY <1>4, <3>1, <3>4, <3>5
  <2>3. QED
    BY <2>1, <2>2
<1>6. QED
  BY <1>4, <1>5 DEF IndicesInv

LEMMA CallPatched ==
  ASSUME PatchesInv, TextOf(program), IsList(program.patches), "text" \in DOMAIN linked,
         NEW n, at = n, n \in 1 .. Len(program.patches), at' = n + 1,
         linked' = [linked EXCEPT !.text[program.patches[n].pos].operand =
                                    linked.index[program.patches[n].id]],
         program' = program
  PROVE  PatchesInv'
<1> DEFINE pos == program.patches[n].pos
           id == program.patches[n].id
           text == linked.text
           new == linked'.text
           index == linked.index
<1>1. /\ pos \in 1 .. Len(program.text) /\ program.text[pos] = CallTo(id)
      /\ Len(program.text) \in Nat
  BY Lists DEF TextOf
<1>2. IsList(text) /\ Len(text) = Len(program.text) /\ DOMAIN text = 1 .. Len(program.text)
  BY Lists DEF PatchesInv
<1>3. linked' = [linked EXCEPT !.text = [text EXCEPT ![pos] =
                                           [text[pos] EXCEPT !.operand = index[id]]]]
  OBVIOUS
<1>4. /\ new = [text EXCEPT ![pos] = [text[pos] EXCEPT !.operand = index[id]]]
      /\ linked'.index = index
  BY <1>3
<1>5. \E x : text[pos] = CallTo(x)
  BY <1>1 DEF PatchesInv, IsPatched
<1>6. [text[pos] EXCEPT !.operand = index[id]] = CallTo(index[id])
  BY <1>5 DEF CallTo
<1> HIDE DEF pos, id, text, new, index
<1>7. new = [p \in 1 .. Len(program.text) |-> IF p = pos THEN CallTo(index[id]) ELSE text[p]]
  <2> DEFINE cell == CallTo(index[id])
             indices == DOMAIN text
  <2>1. new = [text EXCEPT ![pos] = cell] /\ text = [p \in indices |-> text[p]]
    <3>1. new = [text EXCEPT ![pos] = cell]
      BY <1>4, <1>6
    <3>2. text \in Seq(Range(text))
      BY <1>2 DEF IsList
    <3>3. text = [p \in DOMAIN text |-> text[p]]
      <4> DEFINE S == Range(text)
      <4>1. text \in Seq(S)
        BY <3>2
      <4> HIDE DEF S
      <4>2. QED
        BY <4>1
    <3>4. QED
      BY <3>1, <3>3
  <2> HIDE DEF cell, indices
  <2>2. new = [p \in indices |-> IF p = pos THEN cell ELSE text[p]]
    BY <2>1
  <2>3. QED
    BY <1>2, <2>2 DEF cell, indices
<1>8. IsList(new) /\ Len(new) = Len(program.text)
  <2> DEFINE length == Len(program.text)
             Cell(p) == IF p = pos THEN CallTo(index[id]) ELSE text[p]
             S == { Cell(p) : p \in 1 .. length }
  <2>1. length \in Nat /\ new = [p \in 1 .. length |-> Cell(p)]
    BY <1>1, <1>7
  <2> HIDE DEF length, Cell
  <2>2. new \in Seq(S) /\ Len(new) = length
    BY <2>1, SMTT(30)
  <2> HIDE DEF S
  <2>3. QED
    BY <2>2, ListIsSeq DEF length
<1>9. program.text[pos].op = "call" /\ program.text[pos].operand = id
  BY <1>1 DEF CallTo
<1>10. \A p \in 1 .. Len(program.text) : IsPatched(p) => IsPatched(p)'
  <2>1. ASSUME NEW p \in 1 .. Len(program.text), IsPatched(p)
        PROVE  new[p] = CallTo(index[program.text[p].operand])
    <3>1. text[p] = CallTo(index[program.text[p].operand])
      BY <2>1 DEF IsPatched, text, index
    <3>2. QED
      BY <1>7, <1>9, <3>1
  <2>2. QED
    BY <1>4, <2>1 DEF IsPatched, new
<1>11. ASSUME NEW p, p = pos
       PROVE  IsPatched(p)'
  <2>1. new[p] = CallTo(index[program.text[p].operand]) /\ program.text[p].op = "call"
    BY <1>1, <1>7, <1>9, <1>11
  <2>2. QED
    BY <1>4, <2>1 DEF IsPatched, new
<1>12. \A p \in 1 .. Len(program.text) : new[p] = program.text[p] \/ IsPatched(p)'
  <2>1. ASSUME NEW p \in 1 .. Len(program.text)
        PROVE  new[p] = program.text[p] \/ IsPatched(p)'
    <3>1. CASE p = pos
      BY <1>11, <3>1
    <3>2. CASE p # pos /\ text[p] = program.text[p]
      BY <1>7, <3>2
    <3>3. CASE IsPatched(p)
      BY <1>10, <3>3
    <3>4. QED
      BY <3>1, <3>2, <3>3 DEF PatchesInv, text
  <2>2. QED
    BY <2>1
<1>13. ASSUME NEW k \in 1 .. Len(program.patches), k < n + 1,
              NEW p, p = program.patches[k].pos
       PROVE  IsPatched(p)'
  <2>1. CASE k = n
    BY <1>11, <1>13, <2>1 DEF pos
  <2>2. CASE k # n
    <3>1. k < n
      BY <1>13, <2>2, Lists
    <3>2. IsPatched(p)
      BY <1>13, <3>1 DEF PatchesInv
    <3>3. p \in 1 .. Len(program.text)
      BY <1>13 DEF TextOf
    <3>4. QED
      BY <1>10, <3>2, <3>3
  <2>3. QED
    BY <2>1, <2>2
<1>14. \A k \in 1 .. Len(program.patches) : k < n + 1 => IsPatched(program.patches[k].pos)'
  BY <1>13
<1>15. QED
  BY <1>8, <1>12, <1>14 DEF PatchesInv, new

LEMMA NoCallsYet ==
  ASSUME Next, ~ LinkFunction, ~ EndTables, ~ PatchCall, ~ EndLink
  PROVE  /\ stage' \notin {"calls", "linked"}
         /\ linked' = linked
<1>1. CASE ReadStruct \/ ReadVariables
  BY <1>1 DEF ReadStruct, ReadVariables, Failed
<1>2. CASE RegisterDeclaration \/ EndDeclarations
  BY <1>2 DEF RegisterDeclaration, EndDeclarations, Failed
<1>3. CASE InitializeGlobal
  BY <1>3 DEF InitializeGlobal, Failed
<1>4. CASE RegisterFunction \/ FindEntry
  BY <1>4 DEF RegisterFunction, FindEntry, Failed
<1>5. CASE CompileFunction
  BY <1>5 DEF CompileFunction, Failed
<1>6. CASE MarkFromEntry \/ Mark \/ EndMark
  BY <1>6 DEF MarkFromEntry, Mark, EndMark, Failed
<1>7. CASE AssembleBlock
  BY <1>7 DEF AssembleBlock, Failed
<1>8. CASE EndAssembly
  BY <1>8 DEF EndAssembly
<1>9. CASE LinkVariable
  BY <1>9 DEF LinkVariable, Failed
<1>10. CASE EndVariables \/ LinkExterns
  BY <1>10 DEF EndVariables, LinkExterns, Failed
<1>11. QED
  BY <1>1, <1>2, <1>3, <1>4, <1>5, <1>6, <1>7, <1>8, <1>9, <1>10 DEF Next

LEMMA LinkedStep ==
  ASSUME Inv, CodeInv, [Next]_vars
  PROVE  LinkedInv'
<1> SUFFICES ASSUME stage' # "failed" PROVE LinkedInv'
  BY DEF LinkedInv
<1>1. /\ StageInv /\ SymbolsInv /\ BlocksInv /\ AssemblyInv /\ TablesInv
      /\ stage # "failed" /\ TextOf(program) /\ LinkedInv
  BY NextAdvances DEF Inv, StageInv, Advances, Fails, Goes, Counts, CodeInv, TextInv
<1>2. /\ IndicesInv /\ DescribedUpTo(Described, linked)
      /\ IsList(program.functions) /\ IsList(program.patches)
  BY <1>1 DEF LinkedInv, TablesInv, AssemblyInv, AssembledUpTo
<1>3. DOMAIN linked = {"text", "entryPoint", "functions", "paramKinds", "paramOffsets",
                       "frameSize", "frameByteSize", "index", "const", "data",
                       "dataSize", "bssSize"}
  BY <1>2 DEF DescribedUpTo
<1>4. CASE LinkFunction
  <2>0. PICK n : n = at
    OBVIOUS
  <2>1. /\ stage = "tables" /\ stage' = "tables" /\ n \in Nat
        /\ n \in 1 .. Len(program.functions) /\ program' = program
        /\ linked' = WithDescriptor(program.functions[n])
    <3>1. at \in Nat \ {0} /\ Len(program.functions) \in Nat
      BY <1>1, <1>2, Lists DEF StageInv
    <3>2. stage = "tables" /\ at <= Len(program.functions) /\ program' = program
      BY <1>4 DEF LinkFunction
    <3>3. stage' = "tables" /\ linked' = WithDescriptor(program.functions[at])
      BY <1>4, <3>2 DEF LinkFunction, Failed
    <3>4. QED
      BY <2>0, <3>1, <3>2, <3>3
  <2>2. DescribedUpTo(n - 1, linked)
    BY <1>2, <2>0, <2>1 DEF Described, BeforeTables, BeforeAssemble, BeforeCompile
  <2>3. \A k \in 1 .. Len(program.functions) :
          program.functions[k].id = program.functions[n].id => k = n
    BY <1>1, <2>1 DEF TextOf
  <2> DEFINE f == program.functions[n]
  <2>4. f = program.functions[n]
    OBVIOUS
  <2>5. IndicesInv'
    <3> HIDE DEF f
    <3>1. QED
      BY <1>2, <2>1, <2>2, <2>3, <2>4, DescriptorIndexed
  <2>6. QED
    BY <2>1, <2>5 DEF LinkedInv
<1>5. CASE EndTables
  <2>1. /\ stage' = "calls" /\ at' = 1 /\ program' = program
        /\ linked' = [linked EXCEPT !.text = program.text]
    BY <1>5 DEF EndTables
  <2>2. /\ linked'.text = program.text /\ linked'.functions = linked.functions
        /\ linked'.index = linked.index
    BY <1>3, <2>1
  <2>3. IndicesInv'
    BY <1>2, <2>1, <2>2 DEF IndicesInv
  <2>4. IsList(program.text) /\ Len(program.patches) \in Nat
    BY <1>1, <1>2, Lists DEF TextOf
  <2>5. \A k \in 1 .. Len(program.patches) : ~ (k < 1)
    BY <2>4
  <2>6. PatchesInv'
    BY <2>1, <2>2, <2>4, <2>5 DEF PatchesInv
  <2>7. QED
    BY <2>1, <2>3, <2>6 DEF LinkedInv
<1>6. CASE PatchCall
  <2>0. PICK n : n = at
    OBVIOUS
  <2>1. /\ stage = "calls" /\ stage' = "calls" /\ at' = n + 1
        /\ n \in 1 .. Len(program.patches) /\ program' = program
        /\ linked' = [linked EXCEPT !.text[program.patches[n].pos].operand =
                                      linked.index[program.patches[n].id]]
    <3>1. at \in Nat \ {0} /\ Len(program.patches) \in Nat
      BY <1>1, <1>2, Lists DEF StageInv
    <3>2. stage = "calls" /\ at <= Len(program.patches) /\ program' = program
      BY <1>6 DEF PatchCall
    <3>3. /\ stage' = "calls" /\ at' = at + 1
          /\ linked' = [linked EXCEPT !.text[program.patches[at].pos].operand =
                                        linked.index[program.patches[at].id]]
      BY <1>6, <3>2 DEF PatchCall, Failed
    <3>4. QED
      BY <2>0, <3>1, <3>2, <3>3
  <2>2. PatchesInv
    BY <1>1, <2>1 DEF LinkedInv
  <2>3. PatchesInv'
    BY <1>1, <1>2, <1>3, <2>0, <2>1, <2>2, CallPatched
  <2>4. linked'.functions = linked.functions /\ linked'.index = linked.index
    BY <2>1
  <2>5. IndicesInv'
    BY <1>2, <2>1, <2>4 DEF IndicesInv
  <2>6. QED
    BY <2>1, <2>3, <2>5 DEF LinkedInv
<1>7. CASE EndLink
  <2>1. /\ stage = "calls" /\ at > Len(program.patches)
        /\ at' = at /\ program' = program /\ symbols' = symbols
    BY <1>7 DEF EndLink
  <2>2. /\ stage' = "linked"
        /\ linked' = [linked EXCEPT !.entryPoint = linked.index[EntryFunction],
                                    !.frameSize = program.frameSize,
                                    !.frameByteSize = program.frameBytes,
                                    !.const = images.const, !.data = images.data,
                                    !.dataSize = sizes.data, !.bssSize = sizes.bss]
    BY <1>7 DEF EndLink, Failed
  <2>3. /\ linked'.text = linked.text /\ linked'.functions = linked.functions
        /\ linked'.index = linked.index
        /\ linked'.entryPoint = linked.index[EntryFunction]
    BY <1>3, <2>2
  <2>4. IndicesInv'
    BY <1>2, <2>1, <2>3 DEF IndicesInv
  <2>5. PatchesInv'
    <3>1. PatchesInv
      BY <1>1, <2>1 DEF LinkedInv
    <3>2. \A p : IsPatched(p)' <=> IsPatched(p)
      BY <2>1, <2>3 DEF IsPatched
    <3>3. QED
      BY <2>1, <2>3, <3>1, <3>2 DEF PatchesInv
  <2>6. EntryFunction' = EntryFunction
    BY <2>1 DEF EntryFunction
  <2>7. QED
    BY <2>1, <2>2, <2>3, <2>4, <2>5, <2>6 DEF LinkedInv
<1>8. CASE UNCHANGED vars
  <2>1. /\ stage' = stage /\ at' = at /\ program' = program /\ linked' = linked
        /\ symbols' = symbols
    BY <1>8 DEF vars
  <2>2. IndicesInv' <=> IndicesInv
    BY <2>1 DEF IndicesInv
  <2>3. PatchesInv' <=> PatchesInv
    BY <2>1 DEF PatchesInv, IsPatched
  <2>4. EntryFunction' = EntryFunction
    BY <2>1 DEF EntryFunction
  <2>5. QED
    BY <1>1, <2>1, <2>2, <2>3, <2>4 DEF LinkedInv
<1>9. CASE Next /\ ~ LinkFunction /\ ~ EndTables /\ ~ PatchCall /\ ~ EndLink
  <2>1. stage' \notin {"calls", "linked"} /\ linked' = linked
    BY <1>9, NoCallsYet
  <2>2. IndicesInv'
    <3>1. CASE stage = "assemble"
      <4>1. Len(linked.functions) = 0
        BY <1>2, <3>1 DEF DescribedUpTo, Described, BeforeTables, BeforeAssemble
      <4>2. QED
        BY <2>1, <4>1 DEF IndicesInv
    <3>2. CASE stage # "assemble"
      <4>1. program' = program
        BY <3>2, ProgramStays
      <4>2. QED
        BY <1>2, <2>1, <4>1 DEF IndicesInv
    <3>3. QED
      BY <3>1, <3>2
  <2>3. QED
    BY <2>1, <2>2 DEF LinkedInv
<1>10. QED
  BY <1>4, <1>5, <1>6, <1>7, <1>8, <1>9

LEMMA CodeInvariant == Spec => []CodeInv
<1>1. Init => CodeInv
  <2> SUFFICES ASSUME Init PROVE CodeInv
    OBVIOUS
  <2>1. /\ program = [text |-> << >>, patches |-> << >>, functions |-> << >>,
                      frameSize |-> 0, frameBytes |-> 0]
        /\ linked.functions = << >> /\ stage = "structs"
    BY DEF Init
  <2>2. /\ program.text = << >> /\ program.patches = << >> /\ program.functions = << >>
    BY <2>1
  <2>3. TextInv
    BY <2>2, EmptyList DEF TextInv, TextOf
  <2>4. LinkedInv
    BY <2>1, EmptyList DEF LinkedInv, IndicesInv
  <2>5. QED
    BY <2>3, <2>4 DEF CodeInv
<1>2. Inv /\ CodeInv /\ [Next]_vars => CodeInv'
  BY TextStep, LinkedStep DEF CodeInv
<1>3. QED
  BY <1>1, <1>2, Invariant, PTL DEF Spec

-----------------------------------------------------------------------------
(* A program that is linked goes where its source says.                    *)

(* Whatever the walk keeps can be reached by the names in the source. *)
LEMMA KeptIsNeeded ==
  ASSUME Inv, stage = "linked", NEW i \in 1 .. Len(source.functions), IdOf(i) \in Visited
  PROVE  Fun(i).name \in Needed
<1>1. /\ StageInv /\ SymbolsInv /\ BlocksInv /\ GraphInv /\ WalkInv /\ AllBound
      /\ stage \notin BeforeAssemble \cup {"failed"}
      /\ Compiled = Len(source.functions)
  BY LinkedStage
<1>2. ASSUME NEW set \in SUBSET Names, EntryName \in set,
             \A n \in set : CalledBy(n) \cap Names \subseteq set
      PROVE  Fun(i).name \in set
  <2> DEFINE reached == { IdOf(j) : j \in { n \in 1 .. Len(source.functions) :
                                              Fun(n).name \in set } }
  <2>1. reached \in SUBSET Blocks
    BY <1>1, AllCompiled
  <2>2. entry \in reached
    <3>1. PICK j \in 1 .. Len(source.functions) : Fun(j).name = EntryName
      BY <1>1, EntryIsKept
    <3>2. entry = EntryFunction
      BY <1>1 DEF WalkInv, BeforeAssemble, BeforeCompile
    <3>3. QED
      BY <1>2, <3>1, <3>2 DEF EntryFunction, IdOf
  <2>3. Closed(reached)
    <3> SUFFICES ASSUME NEW b \in reached, NEW c \in Callees(b)
                 PROVE  c \in reached
      BY DEF Closed
    <3>1. PICK j \in 1 .. Len(source.functions) : b = IdOf(j) /\ Fun(j).name \in set
      OBVIOUS
    <3>2. PICK k \in 1 .. Len(Fun(j).body), m \in 1 .. Len(source.functions) :
            /\ Fun(j).body[k].op = "call" /\ Fun(j).body[k].name = Fun(m).name
            /\ c = IdOf(m)
      BY <1>1, <3>1, CalleesAreFunctions
    <3>3. Written(Fun(j).name) = Fun(j)
      BY <1>1, NamedFunction, WrittenIsFunction
    <3>4. DOMAIN Fun(j).body = 1 .. Len(Fun(j).body)
      BY <1>1, FunctionLists, Lists
    <3>5. Fun(m).name \in CalledBy(Fun(j).name) \cap Names
      BY <1>1, <3>2, <3>3, <3>4, NamedFunction DEF CalledBy
    <3>6. QED
      BY <1>2, <3>1, <3>2, <3>5
  <2> HIDE DEF reached
  <2>4. IdOf(i) \in reached
    BY <1>1, <2>1, <2>2, <2>3 DEF GraphInv, MarkedIsReachable
  <2>5. PICK j \in 1 .. Len(source.functions) : IdOf(i) = IdOf(j) /\ Fun(j).name \in set
    BY <2>4 DEF reached
  <2>6. j = i
    BY <1>1, <2>5, FunctionsBound
  <2>7. QED
    BY <2>5, <2>6
<1>3. Fun(i).name \in Names
  BY <1>1, NamedFunction
<1>4. QED
  BY <1>2, <1>3, Zenon DEF Needed

(* The descriptor of a function that a run can get to. *)
LEMMA NeededHasDescriptor ==
  ASSUME Inv, CodeInv, stage = "linked", NEW name \in Needed
  PROVE  \E i \in 1 .. Len(source.functions), k \in 1 .. Len(linked.functions) :
           /\ Fun(i) = Written(name) /\ Fun(i).name = name
           /\ IdOf(i) \in Visited
           /\ k \in 1 .. Len(program.functions) /\ program.functions[k].id = IdOf(i)
           /\ linked.index[symbols[name].id] + 1 = k
           /\ linked.functions[k].body = program.functions[k].address
<1>1. /\ StageInv /\ SymbolsInv /\ AssemblyInv /\ TablesInv /\ AllBound
      /\ stage # "failed"
      /\ Assembled = Len(source.functions) /\ Described = Len(program.functions)
  BY LinkedStage
<1>2. PICK i \in 1 .. Len(source.functions) : Fun(i) = Written(name) /\ IdOf(i) \in Visited
  BY NeededIsKept
<1>3. Fun(i).name = name
  <2>1. name \in Names
    BY DEF Needed
  <2>2. QED
    BY <1>1, <1>2, <2>1, WrittenIsFunction
<1>4. /\ IsList(program.functions)
      /\ \E k \in 1 .. Len(program.functions) : program.functions[k].id = IdOf(i)
  BY <1>1, <1>2 DEF AssemblyInv, AssembledUpTo
<1>5. PICK k \in 1 .. Len(program.functions) : program.functions[k].id = IdOf(i)
  BY <1>4
<1>6. Len(linked.functions) = Len(program.functions)
  BY <1>1 DEF TablesInv, DescribedUpTo
<1>7. /\ linked.functions[k].body = program.functions[k].address
      /\ linked.index[program.functions[k].id] = k - 1
  BY <1>1, <1>6 DEF CodeInv, LinkedInv, IndicesInv
<1>8. linked.index[symbols[name].id] + 1 = k
  <2>1. k \in Nat /\ IdOf(i) = symbols[name].id
    BY <1>3, <1>4, Lists DEF IdOf
  <2>2. QED
    BY <1>5, <1>7, <2>1
<1>9. QED
  BY <1>2, <1>3, <1>5, <1>6, <1>7, <1>8

(* The linked text at the cells of a block. *)
LEMMA LinkedCell ==
  ASSUME Inv, CodeInv, stage = "linked", NEW k \in 1 .. Len(program.functions),
         NEW i \in 1 .. Len(source.functions), program.functions[k].id = IdOf(i)
  PROVE  LET code == blocks[IdOf(i)].code
             start == program.functions[k].address
         IN  /\ start \in Nat /\ start + Len(code) <= Len(linked.text)
             /\ \A m \in 1 .. Len(code) :
                  LET cell == linked.text[start + m]
                  IN  /\ code[m].op = "jump" =>
                           cell.op = "jump" /\ cell.operand = code[m].operand + start
                      /\ code[m].op = "call" => cell = CallTo(linked.index[code[m].operand])
                      /\ code[m].op \notin {"jump", "call"} => cell = code[m]
<1> DEFINE code == blocks[IdOf(i)].code
           start == program.functions[k].address
           old == program.text
           new == linked.text
<1>1. /\ StageInv /\ BlocksInv /\ AllBound /\ stage # "failed"
      /\ Compiled = Len(source.functions)
  BY LinkedStage
<1>2. /\ TextOf(program) /\ PatchesInv /\ at > Len(program.patches)
      /\ Len(program.patches) \in Nat /\ at \in Nat
  <2>1. IsList(program.patches)
    BY LinkedStage DEF AssemblyInv, AssembledUpTo
  <2>2. QED
    BY <1>1, <2>1, Lists DEF CodeInv, TextInv, LinkedInv, StageInv
<1>3. /\ IsList(code) /\ Len(code) \in Nat
      /\ \A m \in 1 .. Len(code) :
           code[m].op = "jump" => DOMAIN code[m] = {"op", "operand"}
  <2>1. BlockIsOf(i)
    BY <1>1 DEF BlocksInv
  <2>2. QED
    BY <1>1, <2>1, BlockCells
<1>4. /\ start \in Nat /\ start + Len(code) <= Len(old)
      /\ \A m \in 1 .. Len(code) : old[start + m] = JumpsMoved(code, start)[m]
  BY <1>2 DEF TextOf, HoldsBlock
<1>5. Len(new) = Len(old) /\ Len(old) \in Nat
  BY <1>2, Lists DEF PatchesInv, TextOf
<1> HIDE DEF code, start
<1>6. \A m \in 1 .. Len(code) :
        /\ old[start + m].op = code[m].op
        /\ code[m].op # "jump" => old[start + m] = code[m]
        /\ code[m].op = "jump" => old[start + m].operand = code[m].operand + start
  <2> HIDE DEF old
  <2>1. \A m \in 1 .. Len(code) :
          /\ JumpsMoved(code, start)[m].op = code[m].op
          /\ code[m].op # "jump" => JumpsMoved(code, start)[m] = code[m]
          /\ code[m].op = "jump" =>
               JumpsMoved(code, start)[m].operand = code[m].operand + start
    BY <1>3, CodeMoved
  <2>2. QED
    BY <1>4, <2>1
<1>7. \A m \in 1 .. Len(code) : start + m \in 1 .. Len(old)
  BY <1>3, <1>4, <1>5
<1>8. ASSUME NEW p \in 1 .. Len(old), old[p].op = "call"
      PROVE  new[p] = CallTo(linked.index[old[p].operand])
  <2>1. PICK j \in 1 .. Len(program.patches) : program.patches[j].pos = p
    BY <1>2, <1>8 DEF TextOf
  <2>2. j < at
    BY <1>2
  <2>3. IsPatched(p)
    BY <1>2, <2>1, <2>2 DEF PatchesInv
  <2>4. QED
    BY <2>3 DEF IsPatched
<1>9. ASSUME NEW p \in 1 .. Len(old), old[p].op # "call"
      PROVE  new[p] = old[p]
  BY <1>2, <1>9 DEF PatchesInv, IsPatched
<1> HIDE DEF old, new
<1>10. ASSUME NEW m \in 1 .. Len(code)
       PROVE  LET cell == new[start + m]
              IN  /\ code[m].op = "jump" =>
                       cell.op = "jump" /\ cell.operand = code[m].operand + start
                  /\ code[m].op = "call" => cell = CallTo(linked.index[code[m].operand])
                  /\ code[m].op \notin {"jump", "call"} => cell = code[m]
  BY <1>6, <1>7, <1>8, <1>9
<1>11. start + Len(code) <= Len(new)
  BY <1>4, <1>5 DEF old
<1>12. QED
  BY <1>4, <1>10, <1>11 DEF code, start, old, new

(* The five ways in which a cell can lead on. *)
LEMMA LeadsBy ==
  ASSUME NEW cell, NEW written, NEW params, NEW start, NEW descriptorOf,
         written.op = "jump" => cell.op = "jump" /\ cell.operand = written.to + start,
         written.op = "call" /\ written.name \in Names =>
           cell.op = "call" /\ cell.operand + 1 = descriptorOf[written.name],
         written.op = "call" /\ written.name \notin Names =>
           cell.op = "callextern" /\ cell.operand = Host(written.name).slot,
         written.op \in {"text", "use"} => cell.op = "address",
         written.op \notin {"call", "jump", "text", "use"} => cell.op = written.op
  PROVE  LeadsAsWritten(cell, written, params, start, descriptorOf)
BY DEF LeadsAsWritten

LEMMA LeadsThere ==
  ASSUME Inv, CodeInv, stage = "linked", NEW k \in 1 .. Len(program.functions),
         NEW i \in 1 .. Len(source.functions), program.functions[k].id = IdOf(i),
         IdOf(i) \in Visited, NEW descriptorOf,
         \A name \in Needed : descriptorOf[name] = linked.index[symbols[name].id] + 1
  PROVE  LET start == program.functions[k].address
             body == Fun(i).body
         IN  /\ start + Len(body) <= Len(linked.text)
             /\ \A m \in DOMAIN body :
                  LeadsAsWritten(linked.text[start + m], body[m], Fun(i).params, start,
                                 descriptorOf)
<1> DEFINE start == program.functions[k].address
           code == blocks[IdOf(i)].code
           body == Fun(i).body
<1>1. /\ StageInv /\ SymbolsInv /\ BlocksInv /\ GraphInv /\ AllBound /\ stage # "failed"
      /\ Compiled = Len(source.functions)
  BY LinkedStage
<1>2. /\ IsList(code) /\ Len(body) <= Len(code)
      /\ \A m \in 1 .. Len(body) : ControlCell(Fun(i), m, code[m])
      /\ \A m \in 1 .. Len(body) : body[m].op = "call" => ~ CallRefused(body[m])
  BY <1>1 DEF BlocksInv, BlockIsOf
<1>3. DOMAIN body = 1 .. Len(body) /\ Len(body) \in Nat /\ Len(code) \in Nat
  BY <1>1, <1>2, FunctionLists, Lists
<1>4. /\ start \in Nat /\ start + Len(code) <= Len(linked.text)
      /\ \A m \in 1 .. Len(code) :
           LET cell == linked.text[start + m]
           IN  /\ code[m].op = "jump" =>
                    cell.op = "jump" /\ cell.operand = code[m].operand + start
               /\ code[m].op = "call" => cell = CallTo(linked.index[code[m].operand])
               /\ code[m].op \notin {"jump", "call"} => cell = code[m]
  BY LinkedCell
<1>5. Len(linked.text) \in Nat
  BY <1>1, Lists DEF CodeInv, LinkedInv, PatchesInv
<1>6. start + Len(body) <= Len(linked.text)
  <2> HIDE DEF start, code, body
  <2>1. QED
    BY <1>2, <1>3, <1>4, <1>5
<1>7. ASSUME NEW m \in 1 .. Len(body)
      PROVE  LeadsAsWritten(linked.text[start + m], body[m], Fun(i).params, start,
                            descriptorOf)
  <2> DEFINE written == body[m]
             cell == linked.text[start + m]
  <2>1. ControlCell(Fun(i), m, code[m])
    BY <1>2
  <2>2. /\ written.op = "call" => code[m] = CallCell(written)
        /\ written.op # "call" => code[m].op # "call"
        /\ written.op = "jump" => code[m] = [op |-> "jump", operand |-> written.to]
        /\ written.op \in {"text", "use"} => code[m].op = "address"
        /\ written.op \notin {"call", "jump", "text", "use"} => code[m].op = written.op
    BY <2>1 DEF ControlCell
  <2>3. /\ code[m].op = "jump" =>
             cell.op = "jump" /\ cell.operand = code[m].operand + start
        /\ code[m].op = "call" => cell = CallTo(linked.index[code[m].operand])
        /\ code[m].op \notin {"jump", "call"} => cell = code[m]
    <3>1. m \in 1 .. Len(code)
      <4> HIDE DEF code, body
      <4>1. QED
        BY <1>2, <1>3
    <3>2. QED
      BY <1>4, <3>1
  <2>4. written.op = "call" => ~ CallRefused(written)
    BY <1>2
  <2>5. \A j \in 1 .. Len(source.functions) :
          written.op = "call" /\ written.name = Fun(j).name => Fun(j).name \in Needed
    <3>1. Closed(Visited) /\ i \in 1 .. Compiled
      BY <1>1 DEF GraphInv, VisitedIsClosed
    <3>2. ASSUME NEW j \in 1 .. Len(source.functions),
                 written.op = "call", written.name = Fun(j).name
          PROVE  Fun(j).name \in Needed
      <4>1. IdOf(j) \in Callees(IdOf(i))
        BY <1>1, <3>1, <3>2, CalleesAreFunctions
      <4>2. IdOf(j) \in Visited
        BY <3>1, <4>1 DEF Closed
      <4>3. QED
        BY <4>2, KeptIsNeeded
    <3>3. QED
      BY <3>2
  <2> HIDE DEF written, cell, code, start, body
  <2>6. written.op = "jump" => cell.op = "jump" /\ cell.operand = written.to + start
    BY <2>2, <2>3
  <2>7. ASSUME written.op = "call", written.name \in Names
        PROVE  cell.op = "call" /\ cell.operand + 1 = descriptorOf[written.name]
    <3>1. PICK j \in 1 .. Len(source.functions) : Fun(j).name = written.name
      BY <1>1, <2>7, WrittenIsFunction
    <3>2. symbols[written.name].scope = "script"
      BY <1>1, <3>1, FunctionsBound
    <3>3. code[m] = [op |-> "call", operand |-> symbols[written.name].id]
      BY <2>2, <2>7, <3>2 DEF CallCell
    <3>4. cell.op = "call" /\ cell.operand = linked.index[symbols[written.name].id]
      BY <2>3, <3>3 DEF CallTo
    <3>5. descriptorOf[written.name] = linked.index[symbols[written.name].id] + 1
      BY <2>5, <2>7, <3>1
    <3>6. QED
      BY <3>4, <3>5
  <2>8. ASSUME written.op = "call", written.name \notin Names
        PROVE  cell.op = "callextern" /\ cell.operand = Host(written.name).slot
    <3>1. written.name \in Functions
      BY <2>4, <2>8 DEF CallRefused
    <3>2. \E d \in Externs : d.name = written.name
      BY <1>1, <2>8, <3>1, FunctionsBound, NamedFunction
    <3>3. Host(written.name) \in Externs /\ Host(written.name).name = written.name
      BY <3>2 DEF Host
    <3>4. /\ symbols[written.name].scope = "extern"
          /\ symbols[written.name].slot = Host(written.name).slot
      BY <1>1, <3>3, HostBinding
    <3>5. code[m] = [op |-> "callextern", operand |-> Host(written.name).slot]
      BY <2>2, <2>8, <3>4 DEF CallCell
    <3>6. cell = code[m]
      BY <2>3, <3>5
    <3>7. QED
      BY <3>5, <3>6
  <2>9. /\ written.op \in {"text", "use"} => cell.op = "address"
        /\ written.op \notin {"call", "jump", "text", "use"} => cell.op = written.op
    BY <2>2, <2>3
  <2>10. LeadsAsWritten(cell, written, Fun(i).params, start, descriptorOf)
    BY <2>6, <2>7, <2>8, <2>9, LeadsBy
  <2>11. QED
    BY <2>10 DEF written, cell, start, body
<1>8. QED
  BY <1>3, <1>6, <1>7

(* The block of this descriptor is the function's, cell by cell.            *)
IsBlockOf(name, descriptor, descriptorOf) ==
  \E i \in 1 .. Len(source.functions), k \in 1 .. Len(program.functions) :
    /\ Fun(i) = Written(name) /\ program.functions[k].id = IdOf(i)
    /\ linked.functions[descriptor].body = program.functions[k].address
    /\ program.functions[k].address + Len(Fun(i).body) <= Len(linked.text)
    /\ \A m \in DOMAIN Fun(i).body :
         LeadsAsWritten(linked.text[program.functions[k].address + m], Fun(i).body[m],
                        Fun(i).params, program.functions[k].address, descriptorOf)

LEMMA DescriptorsLinked ==
  ASSUME Inv, CodeInv, stage = "linked"
  PROVE  \E descriptorOf \in Bijection(Needed, DOMAIN linked.functions) :
           /\ descriptorOf[EntryName] = linked.entryPoint + 1
           /\ \A name \in Needed : IsBlockOf(name, descriptorOf[name], descriptorOf)
<1> DEFINE descriptorOf == [name \in Needed |-> linked.index[symbols[name].id] + 1]
           count == Len(linked.functions)
<1>1. /\ StageInv /\ SymbolsInv /\ LayoutInv /\ BlocksInv /\ GraphInv /\ WalkInv
      /\ AssemblyInv /\ TablesInv /\ AllBound
      /\ stage \notin BeforeAssemble \cup {"failed"}
      /\ Compiled = Len(source.functions) /\ Assembled = Len(source.functions)
      /\ Described = Len(program.functions)
  BY LinkedStage
<1>2. \A name \in Needed :
        \E i \in 1 .. Len(source.functions), k \in 1 .. count :
          /\ Fun(i) = Written(name) /\ Fun(i).name = name
          /\ IdOf(i) \in Visited
          /\ k \in 1 .. Len(program.functions) /\ program.functions[k].id = IdOf(i)
          /\ linked.index[symbols[name].id] + 1 = k
          /\ linked.functions[k].body = program.functions[k].address
  BY NeededHasDescriptor
<1>3. DOMAIN linked.functions = 1 .. count /\ count = Len(program.functions)
  BY <1>1, Lists DEF TablesInv, DescribedUpTo
<1>4. \A name \in Needed : descriptorOf[name] = linked.index[symbols[name].id] + 1
  OBVIOUS
<1>5. descriptorOf \in [Needed -> 1 .. count]
  BY <1>2
<1> HIDE DEF descriptorOf
<1>6. ASSUME NEW a \in Needed, NEW b \in Needed, descriptorOf[a] = descriptorOf[b]
      PROVE  a = b
  <2>1. PICK i \in 1 .. Len(source.functions) :
          Fun(i).name = a /\ program.functions[descriptorOf[a]].id = IdOf(i)
    BY <1>2, <1>4
  <2>2. PICK j \in 1 .. Len(source.functions) :
          Fun(j).name = b /\ program.functions[descriptorOf[b]].id = IdOf(j)
    BY <1>2, <1>4
  <2>3. IdOf(i) = IdOf(j)
    BY <1>6, <2>1, <2>2
  <2>4. i = j
    BY <1>1, <2>3, FunctionsBound
  <2>5. QED
    BY <2>1, <2>2, <2>4
<1>7. ASSUME NEW k \in 1 .. count
      PROVE  \E name \in Needed : descriptorOf[name] = k
  <2>1. k \in 1 .. Len(program.functions)
    BY <1>3
  <2>2. PICK i \in 1 .. Len(source.functions) :
          IdOf(i) \in Visited /\ program.functions[k].id = IdOf(i)
    BY <1>1, <2>1, TextFunctions
  <2>3. Fun(i).name \in Needed
    BY <2>2, KeptIsNeeded
  <2> DEFINE name == Fun(i).name
  <2>4. PICK j \in 1 .. Len(source.functions), m \in 1 .. count :
          /\ Fun(j).name = name
          /\ m \in 1 .. Len(program.functions) /\ program.functions[m].id = IdOf(j)
          /\ linked.index[symbols[name].id] + 1 = m
    BY <1>2, <2>3
  <2>5. program.functions[m].id = program.functions[k].id
    BY <2>2, <2>4 DEF IdOf
  <2>6. m = k
    BY <1>1, <2>1, <2>4, <2>5 DEF CodeInv, TextInv, TextOf
  <2>7. QED
    BY <1>4, <2>3, <2>4, <2>6
<1>8. descriptorOf \in Bijection(Needed, DOMAIN linked.functions)
  BY <1>3, <1>5, <1>6, <1>7 DEF Bijection, Injection, Surjection, IsInjective
<1>9. descriptorOf[EntryName] = linked.entryPoint + 1
  <2>1. EntryName \in Needed
    <3>1. PICK i \in 1 .. Len(source.functions) : Fun(i).name = EntryName
      BY <1>1, EntryIsKept
    <3>2. IdOf(i) \in Visited
      BY <1>1, <3>1, EntryIsKept DEF IdOf, EntryFunction
    <3>3. QED
      BY <3>1, <3>2, KeptIsNeeded
  <2>2. linked.entryPoint = linked.index[symbols[EntryName].id]
    BY <1>1 DEF CodeInv, LinkedInv, EntryFunction
  <2>3. QED
    BY <1>4, <2>1, <2>2
<1>10. ASSUME NEW name \in Needed
       PROVE  IsBlockOf(name, descriptorOf[name], descriptorOf)
  <2>1. PICK i \in 1 .. Len(source.functions), k \in 1 .. count :
          /\ Fun(i) = Written(name) /\ IdOf(i) \in Visited
          /\ k \in 1 .. Len(program.functions) /\ program.functions[k].id = IdOf(i)
          /\ linked.index[symbols[name].id] + 1 = k
          /\ linked.functions[k].body = program.functions[k].address
    BY <1>2
  <2>2. linked.functions[descriptorOf[name]].body = program.functions[k].address
    BY <1>4, <2>1
  <2>3. /\ program.functions[k].address + Len(Fun(i).body) <= Len(linked.text)
        /\ \A m \in DOMAIN Fun(i).body :
             LeadsAsWritten(linked.text[program.functions[k].address + m], Fun(i).body[m],
                            Fun(i).params, program.functions[k].address, descriptorOf)
    BY <1>4, <2>1, LeadsThere
  <2>4. QED
    BY <2>1, <2>2, <2>3 DEF IsBlockOf
<1>11. QED
  BY <1>8, <1>9, <1>10

LEMMA ControlLinked == Inv /\ CodeInv => ControlAsWritten
<1> SUFFICES ASSUME Inv, CodeInv, stage = "linked"
             PROVE  LinkedWith(LeadsAsWritten)
  BY DEF ControlAsWritten
<1>1. PICK descriptorOf \in Bijection(Needed, DOMAIN linked.functions) :
        /\ descriptorOf[EntryName] = linked.entryPoint + 1
        /\ \A name \in Needed : IsBlockOf(name, descriptorOf[name], descriptorOf)
  BY DescriptorsLinked
<1>2. ASSUME NEW name \in Needed
      PROVE  LET start == linked.functions[descriptorOf[name]].body
                 body == Written(name).body
             IN  /\ start + Len(body) <= Len(linked.text)
                 /\ \A m \in DOMAIN body :
                      LeadsAsWritten(linked.text[start + m], body[m],
                                     Written(name).params, start, descriptorOf)
  BY <1>1 DEF IsBlockOf
<1>3. QED
  BY <1>1, <1>2 DEF LinkedWith

(* compile.go 226-289, cova/link.go 138-213: whatever the program, once it *)
(* has linked, each function that a run can get to has one descriptor and  *)
(* no other function has one; the code at its body address goes on, jumps  *)
(* and calls, cell by cell, as the source says: a jump stays in its        *)
(* function, a call leads to the descriptor of the function named there or *)
(* to the slot of the host function, and the entry point is script_main's. *)
THEOREM ControlIsLinked == Spec => []ControlAsWritten
<1>1. QED
  BY ControlLinked, Invariant, CodeInvariant, PTL
=============================================================================
