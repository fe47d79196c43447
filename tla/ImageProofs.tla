----------------------------- MODULE ImageProofs -----------------------------
(***************************************************************************)
(* A linked program comes out of its block as it went in, for every        *)
(* program: what the six arrays hold are lists (DataInv and the invariants *)
(* of LinkerProofs), and no two that hold something begin at one place.    *)
(*                                                                         *)
(* And what the images hold: the globals of a segment lie where Laid says, *)
(* their types are made of types that are laid out as well (GlobalsInv),   *)
(* so all their scalars have bytes of their own (BytesAreOwn); and the     *)
(* bytes of each are those of its initial value, or zero (ValuesInv), in   *)
(* the linked program too (ValuesAreCarried).  So an address in the code   *)
(* is that of the scalar or literal named there (SourceIsLinked).          *)
(***************************************************************************)
EXTENDS ProgramImage, LinkerProofs

-----------------------------------------------------------------------------
(* The images of the segments are lists of bytes, whatever is interned or  *)
(* initialized.                                                            *)

DataInv ==
  /\ \A segment \in DOMAIN sizes : sizes[segment] \in Nat
  /\ DOMAIN images = {"data", "const"}
  /\ IsList(images.data) /\ IsList(images.const)

LEMMA ZeroList ==
  ASSUME NEW n \in Nat
  PROVE  IsList([i \in 1 .. n |-> 0])
<1>1. [i \in 1 .. n |-> 0] \in Seq({0})
  OBVIOUS
<1>2. QED
  BY <1>1, ListIsSeq

LEMMA SingleList ==
  ASSUME NEW item
  PROVE  IsList(<< item >>)
<1>1. << item >> \in Seq({item})
  OBVIOUS
<1>2. QED
  BY <1>1, ListIsSeq

LEMMA Uint32IsNat ==
  ASSUME NEW n \in Nat
  PROVE  Uint32(n) \in Nat
BY AlignedWrapping

LEMMA WrittenList ==
  ASSUME NEW image, IsList(image), NEW offset, NEW bytes
  PROVE  IsList(WrittenTo(image, offset, bytes))
<1> DEFINE length == Len(image)
           Byte(i) == IF i - offset \in DOMAIN bytes THEN bytes[i - offset] ELSE image[i]
           S == { Byte(i) : i \in 1 .. length }
<1>1. length \in Nat /\ WrittenTo(image, offset, bytes) = [i \in 1 .. length |-> Byte(i)]
  BY Lists DEF WrittenTo
<1> HIDE DEF length, Byte
<1>2. WrittenTo(image, offset, bytes) \in Seq(S)
  BY <1>1
<1> HIDE DEF S
<1>3. QED
  BY <1>2, ListIsSeq

LEMMA GrownList ==
  ASSUME NEW image, IsList(image), NEW size \in Nat
  PROVE  IsList(Grown(image, size))
<1> DEFINE old == Uint32(Len(image))
           more == [i \in 1 .. size - old |-> 0]
<1>1. old \in Nat
  <2>1. Len(image) \in Nat
    BY Lists
  <2>2. QED
    BY <2>1, Uint32IsNat
<1>2. Grown(image, size) = IF size <= old THEN image ELSE image \o more
  BY DEF Grown
<1> HIDE DEF old
<1>3. CASE size <= old
  BY <1>2, <1>3
<1>4. CASE ~ (size <= old)
  <2>1. size - old \in Nat
    BY <1>1, <1>4
  <2>2. IsList(more)
    BY <2>1, ZeroList
  <2> HIDE DEF more
  <2>3. IsList(image \o more)
    BY <2>2, ConcatLists
  <2>4. QED
    BY <1>2, <1>4, <2>3
<1>5. QED
  BY <1>3, <1>4

(* A pool of literals stays a list of bytes when one comes in. *)
LEMMA InternedList ==
  ASSUME NEW pool, IsList(pool.image), NEW text, IsList(text)
  PROVE  IsList(Interned(pool, text).image)
<1> DEFINE image == pool.image
           zero == << 0 >>
<1>1. IsList(zero)
  BY SingleList
<1>2. text \notin DOMAIN pool.at =>
        Interned(pool, text).image = image \o text \o zero
  BY DEF Interned
<1> HIDE DEF image, zero
<1>3. IsList(image)
  BY DEF image
<1>4. IsList(image \o text)
  BY <1>3, ConcatLists
<1> DEFINE both == image \o text
<1> HIDE DEF both
<1>5. IsList(both \o zero)
  BY <1>1, <1>4, ConcatLists DEF both
<1>6. CASE text \notin DOMAIN pool.at
  BY <1>2, <1>5, <1>6 DEF both
<1>7. CASE text \in DOMAIN pool.at
  BY <1>7 DEF Interned
<1>8. QED
  BY <1>6, <1>7

LEMMA PoolsByStep ==
  ASSUME NEW body, Len(body) \in Nat
  PROVE  /\ Pools(body)[0] = Pool
         /\ \A i \in 1 .. Len(body) :
              Pools(body)[i] = IF body[i].op # "text" THEN Pools(body)[i - 1]
                               ELSE Interned(Pools(body)[i - 1], body[i].text)
<1> DEFINE More(i, before) ==
             IF body[i].op # "text" THEN before ELSE Interned(before, body[i].text)
           Is(f, m) == f = [i \in 0 .. m |-> IF i = 0 THEN Pool ELSE More(i, f[i - 1])]
           T == { m \in 0 .. Len(body) : \E f : Is(f, m) }
<1> HIDE DEF More
<1>1. \E f : Is(f, 0)
  <2>1. Is([i \in 0 .. 0 |-> Pool], 0)
    OBVIOUS
  <2>2. QED
    BY <2>1, Zenon
<1>2. ASSUME NEW m \in 1 .. Len(body), NEW f, Is(f, m - 1)
      PROVE  \E g : Is(g, m)
  <2> DEFINE g == [i \in 0 .. m |-> IF i = m THEN More(m, f[m - 1]) ELSE f[i]]
  <2>1. \A i \in 0 .. m - 1 : g[i] = f[i]
    OBVIOUS
  <2>2. \A i \in 0 .. m - 1 : f[i] = IF i = 0 THEN Pool ELSE More(i, f[i - 1])
    BY <1>2
  <2>3. \A i \in 0 .. m : g[i] = IF i = 0 THEN Pool ELSE More(i, g[i - 1])
    BY <2>1, <2>2
  <2>4. g = [i \in 0 .. m |-> IF i = 0 THEN Pool ELSE More(i, g[i - 1])]
    BY <2>3
  <2> HIDE DEF g
  <2>5. QED
    BY <2>4, Zenon
<1> HIDE DEF Is
<1>3. 0 \in T /\ \A m \in 1 .. Len(body) : m - 1 \in T => m \in T
  BY <1>1, <1>2
<1>4. Len(body) \in T
  <2> HIDE DEF T
  <2>1. 0 .. Len(body) \subseteq T
    BY <1>3, CountingUp
  <2>2. QED
    BY <2>1
<1>5. Is(Pools(body), Len(body))
  <2>1. \E f : Is(f, Len(body))
    BY <1>4
  <2>2. Pools(body) = CHOOSE f : Is(f, Len(body))
    BY Zenon DEF Pools, Is, More
  <2>3. QED
    BY <2>1, <2>2, Zenon
<1>6. \A i \in 0 .. Len(body) :
        Pools(body)[i] = IF i = 0 THEN Pool ELSE More(i, Pools(body)[i - 1])
  BY <1>5 DEF Is
<1>7. Pools(body)[0] = Pool
  BY <1>6
<1>8. \A i \in 1 .. Len(body) : Pools(body)[i] = More(i, Pools(body)[i - 1])
  BY <1>6
<1>9. QED
  BY <1>7, <1>8, Zenon DEF More

LEMMA PoolList ==
  ASSUME IsList(images.const), NEW body, IsList(body),
         \A cell \in Range(body) : cell.op = "text" => IsList(cell.text)
  PROVE  IsList(PoolWith(body).image)
<1> DEFINE pools == Pools(body)
           T == { i \in 0 .. Len(body) : IsList(pools[i].image) }
<1>1. Len(body) \in Nat /\ \A i \in 1 .. Len(body) : body[i] \in Range(body)
  BY Lists
<1>2. /\ pools[0] = Pool
      /\ \A i \in 1 .. Len(body) :
           pools[i] = IF body[i].op # "text" THEN pools[i - 1]
                      ELSE Interned(pools[i - 1], body[i].text)
  BY <1>1, PoolsByStep
<1> HIDE DEF pools
<1>3. 0 \in T
  BY <1>1, <1>2 DEF Pool
<1>4. ASSUME NEW i \in 1 .. Len(body), i - 1 \in T
      PROVE  i \in T
  <2>1. IsList(pools[i - 1].image)
    BY <1>4
  <2>2. IsList(pools[i].image)
    <3>1. CASE body[i].op # "text"
      BY <1>2, <2>1, <3>1
    <3>2. CASE body[i].op = "text"
      <4>1. IsList(body[i].text)
        BY <1>1, <3>2
      <4>2. IsList(Interned(pools[i - 1], body[i].text).image)
        BY <2>1, <4>1, InternedList
      <4>3. QED
        BY <1>2, <3>2, <4>2
    <3>3. QED
      BY <3>1, <3>2
  <2>3. QED
    BY <2>2
<1> HIDE DEF T
<1>5. 0 .. Len(body) \subseteq T
  BY <1>1, <1>3, <1>4, CountingUp
<1>6. Len(body) \in T
  BY <1>1, <1>5
<1>7. QED
  BY <1>6 DEF T, pools, PoolWith

LEMMA ImagesStay ==
  ASSUME [Next]_vars, ~ RegisterDeclaration, ~ InitializeGlobal, ~ CompileFunction
  PROVE  images' = images /\ sizes' = sizes /\ strings' = strings
<1>1. CASE ReadStruct \/ ReadVariables \/ EndDeclarations
  BY <1>1 DEF ReadStruct, DeclareStruct, ReadVariables, EndDeclarations, layoutVars
<1>2. CASE RegisterFunction \/ FindEntry
  BY <1>2 DEF RegisterFunction, FindEntry, layoutVars
<1>3. CASE MarkFromEntry \/ Mark \/ EndMark
  BY <1>3 DEF MarkFromEntry, Mark, EndMark, layoutVars
<1>4. CASE AssembleBlock \/ EndAssembly
  BY <1>4 DEF AssembleBlock, EndAssembly, layoutVars
<1>5. CASE LinkVariable \/ EndVariables \/ LinkExterns
  BY <1>5 DEF LinkVariable, EndVariables, LinkExterns, layoutVars
<1>6. CASE LinkFunction \/ EndTables
  BY <1>6 DEF LinkFunction, EndTables, layoutVars
<1>7. CASE PatchCall \/ EndLink
  BY <1>7 DEF PatchCall, EndLink, layoutVars
<1>8. CASE UNCHANGED vars
  BY <1>8 DEF vars, layoutVars
<1>9. QED
  BY <1>1, <1>2, <1>3, <1>4, <1>5, <1>6, <1>7, <1>8 DEF Next

(* A segment grows by the variable that is placed in it. *)
LEMMA PlacingKeepsData ==
  ASSUME DataInv, NEW d, PlaceVariable(d), IsDescriptor(TypeOf(d.type)),
         DOMAIN sizes = Segments \ {"const"}
  PROVE  DataInv'
<1> DEFINE type == TypeOf(d.type)
           segment == SegmentOf(d)
           offset == AlignUpWrapping(EndOf(segment), type.alignment)
           end == Uint32(offset + type.size)
<1>1. segment \in Segments
  BY DEF SegmentOf, Segments
<1>2. EndOf(segment) \in Nat
  <2>1. CASE segment = "const"
    <3>1. Len(images.const) \in Nat
      BY Lists DEF DataInv
    <3>2. QED
      BY <2>1, <3>1, Uint32IsNat DEF EndOf
  <2>2. CASE segment # "const"
    BY <1>1, <2>2 DEF EndOf, DataInv
  <2>3. QED
    BY <2>1, <2>2
<1>3. type.size \in Nat /\ type.alignment \in {1, 4, 8}
  BY DEF IsDescriptor
<1> HIDE DEF type
<1>4. offset \in Nat
  BY <1>2, <1>3, AlignedWrapping
<1> HIDE DEF offset
<1>5. end \in Nat
  <2>1. offset + type.size \in Nat
    BY <1>3, <1>4
  <2>2. QED
    BY <2>1, Uint32IsNat
<1>6. /\ sizes' = IF segment = "const" THEN sizes ELSE [sizes EXCEPT ![segment] = end]
      /\ images' = IF segment \in DOMAIN images
                   THEN [images EXCEPT ![segment] = Grown(@, end)] ELSE images
  BY DEF PlaceVariable, type, offset
<1> HIDE DEF segment, end
<1>7. \A s \in DOMAIN sizes' : sizes'[s] \in Nat
  BY <1>5, <1>6 DEF DataInv
<1>8. IsList(Grown(images.data, end)) /\ IsList(Grown(images.const, end))
  BY <1>5, GrownList DEF DataInv
<1>9. /\ DOMAIN images' = {"data", "const"}
      /\ images'.data \in {images.data, Grown(images.data, end)}
      /\ images'.const \in {images.const, Grown(images.const, end)}
  BY <1>6 DEF DataInv
<1>10. IsList(images'.data) /\ IsList(images'.const)
  BY <1>8, <1>9 DEF DataInv
<1>11. QED
  BY <1>7, <1>9, <1>10 DEF DataInv

LEMMA InitializingKeepsData ==
  ASSUME DataInv, NEW d, Initialize(d), IsList(d.initial.text)
  PROVE  DataInv'
<1> DEFINE segment == SegmentOf(d)
           offset == PlaceOf(d.name).offset
           bytes == Bytes(BitsOf(PlaceOf(d.name).type, d.initial), PlaceOf(d.name).type.size)
           filled == WrittenTo(ImageToFill(segment, d.initial), offset, bytes)
           pool == PoolAfter(d.initial)
<1>1. /\ images' = [const |-> IF segment = "const" THEN filled ELSE pool.image,
                    data |-> IF segment = "data" THEN filled ELSE images.data]
      /\ sizes' = sizes /\ segment \in {"data", "const"}
  BY DEF Initialize, InitializerAccepted
<1>2. IsList(pool.image)
  <2>1. Pool.image = images.const
    BY DEF Pool
  <2>2. IsList(Pool.image)
    BY <2>1 DEF DataInv
  <2>3. IsList(Interned(Pool, d.initial.text).image)
    BY <2>2, InternedList
  <2>4. QED
    BY <2>2, <2>3 DEF PoolAfter
<1>3. IsList(ImageToFill(segment, d.initial))
  <2>1. ImageToFill(segment, d.initial) \in {pool.image, images.data}
    BY <1>1 DEF ImageToFill
  <2>2. QED
    BY <1>2, <2>1 DEF DataInv
<1> HIDE DEF segment, offset, bytes, pool
<1>4. IsList(filled)
  BY <1>3, WrittenList
<1> HIDE DEF filled
<1>5. /\ DOMAIN images' = {"data", "const"}
      /\ images'.const \in {filled, pool.image} /\ images'.data \in {filled, images.data}
  BY <1>1
<1>6. IsList(images'.const) /\ IsList(images'.data)
  BY <1>2, <1>4, <1>5 DEF DataInv
<1>7. QED
  BY <1>1, <1>5, <1>6 DEF DataInv

LEMMA InterningKeepsData ==
  ASSUME DataInv, NEW body, Intern(body), IsList(body),
         \A cell \in Range(body) : cell.op = "text" => IsList(cell.text)
  PROVE  DataInv'
<1>1. IsList(PoolWith(body).image)
  BY PoolList DEF DataInv
<1>2. images' = [images EXCEPT !.const = PoolWith(body).image] /\ sizes' = sizes
  BY DEF Intern
<1>3. QED
  BY <1>1, <1>2 DEF DataInv

LEMMA DataStep ==
  ASSUME StageInv, LayoutInv, [Next]_vars, DataInv
  PROVE  DataInv'
<1>1. CASE images' = images /\ sizes' = sizes
  BY <1>1 DEF DataInv
<1>2. CASE RegisterDeclaration
  <2> DEFINE d == source.decls[at]
  <2>1. stage = "register" /\ at \in 1 .. Len(source.decls)
    BY <1>2, SourceLists DEF RegisterDeclaration, StageInv
  <2>2. CASE d.kind = "variable" /\ PlaceVariable(d)
    <3>1. d \in Variables
      BY <2>1, <2>2, SourceLists DEF StageInv, Variables, Range
    <3>2. d.type.name \in DOMAIN types
      BY <2>1, <3>1 DEF LayoutInv, VariableAccepted, TypeAccepted
    <3>3. d.type.counts \in Seq(Nat)
      BY <2>2, <3>1, SourceLists DEF StageInv, IsSource, Variables
    <3>4. TypesInv /\ DOMAIN sizes = Segments \ {"const"}
      BY <2>1 DEF LayoutInv, PlacesInv
    <3>5. IsDescriptor(TypeOf(d.type))
      BY <3>2, <3>3, <3>4, WrittenTypes DEF TypesInv
    <3> HIDE DEF d
    <3>6. QED
      BY <2>2, <3>4, <3>5, PlacingKeepsData
  <2>3. CASE UNCHANGED layoutVars
    BY <1>1, <2>3 DEF layoutVars
  <2>4. QED
    BY <1>2, <2>2, <2>3 DEF RegisterDeclaration, RegisterVariable, RegisterExtern
<1>3. CASE InitializeGlobal
  <2> DEFINE d == source.decls[at]
  <2>1. CASE UNCHANGED layoutVars
    BY <1>1, <2>1 DEF layoutVars
  <2>2. CASE ~ UNCHANGED layoutVars
    <3>1. at \in 1 .. Len(source.decls) /\ Initialized(d) /\ Initialize(d)
      BY <1>3, <2>2, SourceLists DEF InitializeGlobal, StageInv
    <3>2. d \in Range(source.decls) /\ d.kind = "variable" /\ d.initial # NoValue
      BY <3>1, SourceLists DEF StageInv, Range, Initialized
    <3>3. IsList(d.initial.text)
      BY <3>2, SourceLists DEF StageInv, IsSource
    <3> HIDE DEF d
    <3>4. QED
      BY <3>1, <3>3, InitializingKeepsData
  <2>3. QED
    BY <2>1, <2>2
<1>4. CASE CompileFunction
  <2> DEFINE f == source.functions[at]
  <2>1. CASE UNCHANGED layoutVars
    BY <1>1, <2>1 DEF layoutVars
  <2>2. CASE ~ UNCHANGED layoutVars
    <3>1. at \in 1 .. Len(source.functions) /\ Intern(f.body)
      BY <1>4, <2>2, SourceLists DEF CompileFunction, StageInv
    <3>2. f \in Range(source.functions)
      BY <3>1, SourceLists DEF StageInv, Range
    <3>3. /\ IsList(f.body)
          /\ \A cell \in Range(f.body) : cell.op = "text" => IsList(cell.text)
      BY <3>2, SourceLists DEF StageInv, IsSource
    <3> HIDE DEF f
    <3>4. QED
      BY <3>1, <3>3, InterningKeepsData
  <2>3. QED
    BY <2>1, <2>2
<1>5. QED
  BY <1>1, <1>2, <1>3, <1>4, ImagesStay

-----------------------------------------------------------------------------
(* No parameter is void, and the largest frame counts its slots.           *)

SlotsInv ==
  /\ \A id \in DOMAIN blocks : blocks[id].slots \in Nat
  /\ program.frameSize \in Nat

TablesHold ==
  /\ IsList(linked.data) /\ IsList(linked.const)
  /\ linked.frameSize \in Nat
  /\ "Void" \notin Range(linked.paramKinds)

LEMMA SlotsStep ==
  ASSUME StageInv, SymbolsInv, BlocksInv, [Next]_vars, SlotsInv
  PROVE  SlotsInv'
<1>1. CASE CompileFunction
  <2>1. program' = program
    BY <1>1 DEF CompileFunction
  <2>2. CASE blocks' = blocks
    BY <2>1, <2>2 DEF SlotsInv
  <2>3. CASE blocks' # blocks
    <3> DEFINE f == source.functions[at]
               made == BlockOf(f)
               id == made.binding.id
    <3>1. /\ at \in 1 .. Len(source.functions)
          /\ blocks' = [b \in DOMAIN blocks \cup {id} |->
                          IF b = id THEN made ELSE blocks[b]]
      BY <1>1, <2>3, SourceLists DEF CompileFunction, StageInv
    <3>2. f \in Range(source.functions)
      BY <3>1, SourceLists DEF StageInv, Range
    <3>3. IsList(f.params) /\ IsList(f.locals)
      BY <3>2, SourceLists DEF StageInv, IsSource
    <3>4. Len(f.params) \in Nat /\ Len(f.locals) \in Nat
      BY <3>3, Lists
    <3>5. made.slots = Len(f.params) + Len(f.locals)
      BY DEF BlockOf
    <3>6. made.slots \in Nat
      <4> DEFINE params == Len(f.params)
                 locals == Len(f.locals)
      <4>1. params \in Nat /\ locals \in Nat /\ made.slots = params + locals
        BY <3>4, <3>5
      <4> HIDE DEF made, params, locals
      <4>2. QED
        BY <4>1
    <3> HIDE DEF f, made, id
    <3>7. QED
      BY <2>1, <3>1, <3>6 DEF SlotsInv
  <2>4. QED
    BY <2>2, <2>3
<1>2. CASE AssembleBlock
  <2>1. blocks' = blocks
    BY <1>2 DEF AssembleBlock
  <2>2. CASE program' = program
    BY <2>1, <2>2 DEF SlotsInv
  <2>3. CASE program' # program
    <3>1. stage' # "failed" /\ stage = "assemble"
      BY <1>2, <2>3 DEF AssembleBlock
    <3>2. PICK n \in 1 .. Len(source.functions) :
            IdOf(n) \in Visited /\ program' = WithBlock(blocks[IdOf(n)])
      BY <1>2, <2>3, <3>1, BlockAssembled
    <3> DEFINE slots == blocks[IdOf(n)].slots
    <3>3. IdOf(n) \in DOMAIN blocks
      BY <3>1, <3>2 DEF BlocksInv, Visited, WithMark
    <3>4. slots \in Nat /\ program.frameSize \in Nat
      BY <3>3 DEF SlotsInv
    <3>5. program'.frameSize = Larger(program.frameSize, slots)
      BY <3>2 DEF WithBlock
    <3> HIDE DEF slots
    <3>6. program'.frameSize \in Nat
      BY <3>4, <3>5 DEF Larger
    <3>7. QED
      BY <2>1, <3>6 DEF SlotsInv
  <2>4. QED
    BY <2>2, <2>3
<1>3. CASE ~ CompileFunction /\ ~ AssembleBlock
  <2>1. blocks' = blocks /\ program' = program
    BY <1>3, BlocksStay, AssemblyStays
  <2>2. QED
    BY <2>1 DEF SlotsInv
<1>4. QED
  BY <1>1, <1>2, <1>3

(* The tables take the kinds of a function none of which is void. *)
LEMMA DescriptorsTakeNoVoid ==
  ASSUME Inv, TablesHold, LinkFunction
  PROVE  TablesHold'
<1>1. stage = "tables" /\ at \in 1 .. Len(program.functions)
  <2>1. stage = "tables" /\ at <= Len(program.functions) /\ at \in Nat \ {0}
    BY DEF LinkFunction, Inv, StageInv
  <2>2. Len(program.functions) \in Nat
    BY <2>1, Lists DEF Inv, AssemblyInv, AssembledUpTo
  <2>3. QED
    BY <2>1, <2>2
<1>2. CASE linked' = linked
  BY <1>2 DEF TablesHold
<1>3. CASE linked' # linked
  <2> DEFINE f == program.functions[at]
             kinds == linked.paramKinds
             added == f.params
  <2>1. ~ TakesVoid(f) /\ linked' = WithDescriptor(f)
    BY <1>3 DEF LinkFunction
  <2>2. /\ DOMAIN linked = {"text", "entryPoint", "functions", "paramKinds",
                            "paramOffsets", "frameSize", "frameByteSize", "index",
                            "const", "data", "dataSize", "bssSize"}
        /\ IsList(kinds)
    BY <1>1 DEF Inv, TablesInv, DescribedUpTo
  <2>3. IsList(added)
    <3>1. /\ StageInv /\ SymbolsInv /\ LayoutInv /\ BlocksInv /\ AssemblyInv /\ AllBound
          /\ Compiled = Len(source.functions)
      BY <1>1 DEF Inv, AllBound, Compiled, BeforeCompile
    <3>2. QED
      BY <1>1, <3>1, TextFunctions
  <2>4. "Void" \notin Range(kinds) /\ "Void" \notin Range(added)
    BY <2>1 DEF TablesHold, TakesVoid
  <2>5. /\ linked'.paramKinds = kinds \o added
        /\ linked'.data = linked.data /\ linked'.const = linked.const
        /\ linked'.frameSize = linked.frameSize
    BY <2>1, <2>2 DEF WithDescriptor
  <2> HIDE DEF f, kinds, added
  <2>6. "Void" \notin Range(kinds \o added)
    <3> DEFINE both == kinds \o added
    <3>1. /\ Len(kinds) \in Nat /\ Len(added) \in Nat
          /\ \A i \in 1 .. Len(kinds) : kinds[i] \in Range(kinds)
          /\ \A i \in 1 .. Len(added) : added[i] \in Range(added)
      BY <2>2, <2>3, Lists
    <3>2. /\ IsList(both) /\ Len(both) = Len(kinds) + Len(added)
          /\ \A i \in 1 .. Len(kinds) : both[i] = kinds[i]
          /\ \A i \in 1 .. Len(added) : both[Len(kinds) + i] = added[i]
      BY <2>2, <2>3, ConcatLists
    <3> HIDE DEF both
    <3>3. DOMAIN both = 1 .. Len(kinds) + Len(added)
      BY <3>2, Lists
    <3>4. ASSUME NEW i \in DOMAIN both
          PROVE  both[i] # "Void"
      <4>1. CASE i \in 1 .. Len(kinds)
        BY <2>4, <3>1, <3>2, <4>1
      <4>2. CASE i \notin 1 .. Len(kinds)
        <5>1. i - Len(kinds) \in 1 .. Len(added) /\ i = Len(kinds) + (i - Len(kinds))
          BY <3>1, <3>3, <4>2
        <5>2. both[i] = added[i - Len(kinds)]
          BY <3>2, <5>1
        <5>3. QED
          BY <2>4, <3>1, <5>1, <5>2
      <4>3. QED
        BY <4>1, <4>2
    <3>5. QED
      BY <3>4 DEF Range, both
  <2>7. QED
    BY <2>5, <2>6 DEF TablesHold
<1>4. QED
  BY <1>2, <1>3

LEMMA TablesHoldStep ==
  ASSUME Inv, DataInv, SlotsInv, TablesHold, [Next]_vars
  PROVE  TablesHold'
<1>1. CASE LinkFunction
  BY <1>1, DescriptorsTakeNoVoid
<1>2. CASE EndTables \/ PatchCall \/ EndLink
  <2>1. stage \in {"tables", "calls"}
    BY <1>2 DEF EndTables, PatchCall, EndLink
  <2>2. DOMAIN linked = {"text", "entryPoint", "functions", "paramKinds", "paramOffsets",
                         "frameSize", "frameByteSize", "index", "const", "data",
                         "dataSize", "bssSize"}
    BY <2>1 DEF Inv, TablesInv, DescribedUpTo
  <2>3. CASE EndTables \/ PatchCall
    <3>1. /\ linked'.paramKinds = linked.paramKinds /\ linked'.frameSize = linked.frameSize
          /\ linked'.const = linked.const /\ linked'.data = linked.data
      BY <2>2, <2>3 DEF EndTables, PatchCall
    <3>2. QED
      BY <3>1 DEF TablesHold
  <2>4. CASE EndLink
    <3>1. CASE linked' = linked
      BY <3>1 DEF TablesHold
    <3>2. CASE linked' # linked
      <4>1. /\ linked'.paramKinds = linked.paramKinds
            /\ linked'.frameSize = program.frameSize
            /\ linked'.const = images.const /\ linked'.data = images.data
        BY <2>2, <2>4, <3>2 DEF EndLink
      <4>2. QED
        BY <4>1 DEF TablesHold, DataInv, SlotsInv
    <3>3. QED
      BY <3>1, <3>2
  <2>5. QED
    BY <1>2, <2>3, <2>4
<1>3. CASE ~ LinkFunction /\ ~ EndTables /\ ~ PatchCall /\ ~ EndLink
  <2>1. linked' = linked
    BY <1>3, TablesStay DEF Inv
  <2>2. QED
    BY <2>1 DEF TablesHold
<1>4. QED
  BY <1>1, <1>2, <1>3

-----------------------------------------------------------------------------
(* The arrays of a block.                                                  *)

Arrays6(image) ==
  /\ IsList(image.functions) /\ IsList(image.paramKinds) /\ IsList(image.paramOffsets)
  /\ IsList(image.text) /\ IsList(image.const) /\ IsList(image.data)

LEMMA Arrays6Lists ==
  ASSUME NEW image, Arrays6(image), NEW i \in 1 .. 6
  PROVE  /\ IsList(image[ArrayNames[i]])
         /\ Len(image[ArrayNames[i]]) \in Nat
         /\ ElementSize[i] \in Nat /\ ElementSize[i] > 0
         /\ FieldOffset(i) \in Nat
<1>1. IsList(image[ArrayNames[i]])
  <2>1. CASE i = 1
    BY <2>1 DEF Arrays6, ArrayNames
  <2>2. CASE i = 2
    BY <2>2 DEF Arrays6, ArrayNames
  <2>3. CASE i = 3
    BY <2>3 DEF Arrays6, ArrayNames
  <2>4. CASE i = 4
    BY <2>4 DEF Arrays6, ArrayNames
  <2>5. CASE i = 5
    BY <2>5 DEF Arrays6, ArrayNames
  <2>6. CASE i = 6
    BY <2>6 DEF Arrays6, ArrayNames
  <2>7. QED
    BY <2>1, <2>2, <2>3, <2>4, <2>5, <2>6
<1>2. ElementSize[i] \in Nat /\ ElementSize[i] > 0
  BY DEF ElementSize
<1>3. FieldOffset(i) \in Nat
  BY DEF FieldOffset
<1>4. QED
  BY <1>1, <1>2, <1>3, Lists

LEMMA NoItems ==
  ASSUME NEW list, IsList(list), Len(list) = 0
  PROVE  list = << >>
<1> DEFINE S == Range(list)
<1>1. list \in Seq(S)
  BY DEF IsList
<1> HIDE DEF S
<1>2. QED
  BY <1>1

(* Arrays start one after another, and one that holds something ends       *)
(* after its start.                                                        *)
LEMMA StartsInOrder ==
  ASSUME NEW image, Arrays6(image)
  PROVE  LET starts == Starts(image)
         IN  /\ starts = [i \in 1 .. 6 |-> starts[i]]
             /\ \A i \in 1 .. 6 : starts[i] \in Nat
             /\ \A i, j \in 1 .. 6 :
                  i < j /\ image[ArrayNames[i]] # << >> => starts[i] < starts[j]
<1> DEFINE parts == Parts(image)
           laid == Laid(parts)
           start(i) == Starts(image)[i]
           items(i) == Len(image[ArrayNames[i]])
<1>1. Len(parts) = 7 /\ DOMAIN parts = 1 .. 7
  BY DEF Parts
<1>2. ASSUME NEW i \in 1 .. 6
      PROVE  /\ items(i) \in Nat
             /\ parts[i + 1].size \in Nat
             /\ items(i) <= parts[i + 1].size
  <2> DEFINE many == items(i)
             each == ElementSize[i]
  <2>1. many \in Nat /\ each \in Nat /\ each > 0
    BY Arrays6Lists
  <2>2. parts[i + 1].size = many * each
    BY DEF Parts
  <2> HIDE DEF many, each, parts
  <2>3. many * each \in Nat /\ many <= many * each
    BY <2>1
  <2>4. QED
    BY <2>1, <2>2, <2>3 DEF many
<1>3. \A i \in 1 .. 7 : IsDescriptor(parts[i])
  <2>1. \A i \in 1 .. 7 : parts[i].alignment = 4
    BY DEF Parts
  <2>2. parts[1].size = 76
    BY DEF Parts, HeaderSize
  <2>3. ASSUME NEW i \in 2 .. 7
        PROVE  parts[i].size \in Nat
    <3>1. i - 1 \in 1 .. 6 /\ (i - 1) + 1 = i
      OBVIOUS
    <3> HIDE DEF parts, items
    <3>2. parts[(i - 1) + 1].size \in Nat
      BY <1>2, <3>1
    <3>3. QED
      BY <3>1, <3>2
  <2> HIDE DEF parts
  <2>4. QED
    BY <2>1, <2>2, <2>3 DEF IsDescriptor
<1> HIDE DEF parts
<1>4. /\ \A i \in 1 .. 7 : laid.offsets[i] \in Nat
      /\ \A i \in 1 .. 6 : laid.offsets[i] + parts[i].size <= laid.offsets[i + 1]
  <2> DEFINE length == Len(parts)
  <2>1. length = 7
    BY <1>1
  <2>2. length \in Nat /\ \A i \in 1 .. length : IsDescriptor(parts[i])
    BY <1>3, <2>1
  <2>3. /\ \A i \in 1 .. length : laid.offsets[i] \in Nat
        /\ \A i \in 1 .. length - 1 : laid.offsets[i] + parts[i].size <= laid.offsets[i + 1]
    <3> HIDE DEF laid
    <3>1. Len(parts) \in Nat /\ \A i \in 1 .. Len(parts) : IsDescriptor(parts[i])
      BY <2>2
    <3>2. /\ \A i \in 1 .. Len(parts) : Laid(parts).offsets[i] \in Nat
          /\ \A i \in 1 .. Len(parts) - 1 :
               Laid(parts).offsets[i] + parts[i].size <= Laid(parts).offsets[i + 1]
      BY <3>1, LaidInOrder, Zenon
    <3>3. QED
      BY <3>2, Zenon DEF laid
  <2> HIDE DEF laid, length
  <2>4. QED
    BY <2>1, <2>3
<1> HIDE DEF laid
<1>5. \A i \in 1 .. 6 : start(i) = laid.offsets[i + 1]
  BY DEF Starts, laid, parts
<1> HIDE DEF start
<1>6. \A i \in 1 .. 6 : start(i) \in Nat
  BY <1>4, <1>5
<1>7. ASSUME NEW i \in 1 .. 5
      PROVE  start(i) + items(i) <= start(i + 1)
  <2>1. /\ start(i) = laid.offsets[i + 1] /\ start(i + 1) = laid.offsets[(i + 1) + 1]
        /\ laid.offsets[i + 1] + parts[i + 1].size <= laid.offsets[(i + 1) + 1]
    BY <1>4, <1>5
  <2> HIDE DEF items
  <2>2. items(i) \in Nat /\ parts[i + 1].size \in Nat /\ items(i) <= parts[i + 1].size
    <3>1. i \in 1 .. 6
      OBVIOUS
    <3>2. QED
      BY <1>2, <3>1
  <2>3. start(i) \in Nat /\ start(i + 1) \in Nat
    BY <1>6
  <2>4. QED
    BY <2>1, <2>2, <2>3
<1>8. \A i \in 1 .. 6 : items(i) \in Nat
  BY <1>2
<1>9. \A i \in 1 .. 6 : image[ArrayNames[i]] # << >> => items(i) # 0
  <2> SUFFICES ASSUME NEW i \in 1 .. 6, Len(image[ArrayNames[i]]) = 0
               PROVE  image[ArrayNames[i]] = << >>
    OBVIOUS
  <2> DEFINE array == image[ArrayNames[i]]
             S == Range(array)
  <2>1. array \in Seq(S) /\ Len(array) = 0
    BY Arrays6Lists DEF IsList
  <2> HIDE DEF array, S
  <2>2. array = << >>
    BY <2>1
  <2>3. QED
    BY <2>2 DEF array
<1> HIDE DEF items
<1>10. ASSUME NEW i \in 1 .. 6, NEW j \in 1 .. 6, i < j
       PROVE  start(i) + items(i) <= start(j)
  <2>1. /\ start(1) + items(1) <= start(2) /\ start(2) + items(2) <= start(3)
        /\ start(3) + items(3) <= start(4) /\ start(4) + items(4) <= start(5)
        /\ start(5) + items(5) <= start(6)
    BY <1>7
  <2>2. \A k \in 1 .. 6 : start(k) \in Nat /\ items(k) \in Nat
    BY <1>6, <1>8
  <2>3. /\ start(1) + items(1) <= start(3) /\ start(1) + items(1) <= start(4)
        /\ start(1) + items(1) <= start(5) /\ start(1) + items(1) <= start(6)
    BY <2>1, <2>2
  <2>4. /\ start(2) + items(2) <= start(4) /\ start(2) + items(2) <= start(5)
        /\ start(2) + items(2) <= start(6)
    BY <2>1, <2>2
  <2>5. /\ start(3) + items(3) <= start(5) /\ start(3) + items(3) <= start(6)
        /\ start(4) + items(4) <= start(6)
    BY <2>1, <2>2
  <2>6. i = 1 \/ i = 2 \/ i = 3 \/ i = 4 \/ i = 5
    BY <1>10
  <2>7. QED
    BY <1>10, <2>1, <2>3, <2>4, <2>5, <2>6
<1>11. ASSUME NEW i \in 1 .. 6, NEW j \in 1 .. 6, i < j, image[ArrayNames[i]] # << >>
       PROVE  start(i) < start(j)
  <2>1. start(i) + items(i) <= start(j) /\ items(i) \in Nat /\ items(i) # 0
        /\ start(i) \in Nat /\ start(j) \in Nat
    BY <1>6, <1>8, <1>9, <1>10, <1>11
  <2>2. QED
    BY <2>1
<1>12. Starts(image) = [i \in 1 .. 6 |-> Starts(image)[i]]
  BY DEF Starts
<1>13. QED
  BY <1>6, <1>11, <1>12 DEF start

(* An array is found again where it was put: of those that hold something, *)
(* only it starts there.                                                   *)
LEMMA ArrayIsRead ==
  ASSUME NEW image, Arrays6(image), NEW i \in 1 .. 6
  PROVE  ArrayIn(Encode(image), i) = image[ArrayNames[i]]
<1> DEFINE b == Encode(image)
           starts == Starts(image)
           array(k) == image[ArrayNames[k]]
           Holds(start, k) == starts[k] = start /\ array(k) # << >>
           field == FieldOffset(i)
           start == starts[i]
           ref == b.arrays[i]
<1>1. ref = [offset |-> IF array(i) = << >> THEN 0 ELSE start - field,
             size |-> Len(array(i))]
  BY DEF Encode, OffsetFromHeader
<1>2. b.at = [s \in { starts[k] : k \in { m \in 1 .. 6 : array(m) # << >> } } |->
                array(CHOOSE k \in 1 .. 6 : Holds(s, k))]
  BY DEF Encode
<1>3. ArrayIn(b, i) = IF ref.size = 0 THEN << >>
                      ELSE IF field + ref.offset \in DOMAIN b.at
                           THEN b.at[field + ref.offset] ELSE << >>
  BY DEF ArrayIn
<1>4. field \in Nat /\ IsList(array(i))
  BY Arrays6Lists
<1>5. /\ \A k \in 1 .. 6 : starts[k] \in Nat
      /\ \A k, m \in 1 .. 6 : k < m /\ array(k) # << >> => starts[k] < starts[m]
  BY StartsInOrder
<1> HIDE DEF b, starts, array, field, ref
<1>6. CASE array(i) = << >>
  <2>1. ref.size = 0
    BY <1>1, <1>6, EmptyList
  <2>2. QED
    BY <1>3, <1>6, <2>1 DEF array, b
<1>7. CASE array(i) # << >>
  <2>1. ref.size # 0
    BY <1>1, <1>4, <1>7, NoItems
  <2>2. field + ref.offset = start
    <3>1. ref.offset = start - field /\ start \in Nat
      BY <1>1, <1>5, <1>7
    <3> HIDE DEF start
    <3>2. QED
      BY <1>4, <3>1
  <2>3. ASSUME NEW k \in 1 .. 6, Holds(start, k)
        PROVE  k = i
    <3>1. starts[k] = start /\ array(k) # << >> /\ start \in Nat
      BY <1>5, <2>3
    <3> HIDE DEF Holds
    <3>2. k < i => starts[k] < start
      BY <1>5, <3>1
    <3>3. i < k => start < starts[k]
      BY <1>5, <1>7
    <3> HIDE DEF start
    <3>4. ~ (k < i) /\ ~ (i < k)
      BY <3>1, <3>2, <3>3
    <3>5. QED
      BY <3>4
  <2>4. Holds(start, i)
    BY <1>7
  <2> HIDE DEF Holds
  <2>5. (CHOOSE k \in 1 .. 6 : Holds(start, k)) = i
    BY <2>3, <2>4
  <2>6. start \in DOMAIN b.at /\ b.at[start] = array(CHOOSE k \in 1 .. 6 : Holds(start, k))
    BY <1>2, <1>7
  <2>7. ArrayIn(b, i) = array(i)
    BY <1>3, <2>1, <2>2, <2>5, <2>6
  <2>8. QED
    BY <2>7 DEF array, b
<1>8. QED
  BY <1>6, <1>7

(* A program that the toolchain has linked is one of lists. *)
ImageFields == {"entryPoint", "frameSize", "frameByteSize", "functions", "paramKinds",
                "paramOffsets", "text", "bss", "const", "data"}

LEMMA EncodeDecodes ==
  ASSUME NEW image, Arrays6(image), image = [field \in ImageFields |-> image[field]]
  PROVE  Decode(Encode(image)) = image
<1> DEFINE b == Encode(image)
<1>1. /\ b.entryPoint = image.entryPoint /\ b.bss = image.bss
      /\ b.frameSize = image.frameSize /\ b.frameByteSize = image.frameByteSize
  BY DEF Encode
<1>2. \A i \in 1 .. 6 : ArrayIn(b, i) = image[ArrayNames[i]]
  BY ArrayIsRead
<1> HIDE DEF b
<1>3. /\ ArrayIn(b, 1) = image.functions /\ ArrayIn(b, 2) = image.paramKinds
      /\ ArrayIn(b, 3) = image.paramOffsets /\ ArrayIn(b, 4) = image.text
      /\ ArrayIn(b, 5) = image.const /\ ArrayIn(b, 6) = image.data
  BY <1>2 DEF ArrayNames
<1>4. Decode(b) = [field \in ImageFields |-> image[field]]
  BY <1>1, <1>3 DEF Decode, ImageFields
<1>5. QED
  BY <1>4 DEF b

-----------------------------------------------------------------------------
(* What is linked is made of lists, and the linker leaves it alone.        *)

LEMMA LinkedArrays ==
  ASSUME Inv, CodeInv, TablesHold, stage = "linked"
  PROVE  /\ Arrays6(ImageOfLinked)
         /\ ImageOfLinked = [field \in ImageFields |-> ImageOfLinked[field]]
<1>1. DescribedUpTo(Described, linked)
  BY DEF Inv, TablesInv
<1>2. IsList(linked.text)
  BY DEF CodeInv, LinkedInv, PatchesInv
<1>3. IsList(linked.const) /\ IsList(linked.data)
  BY DEF TablesHold
<1>4. Arrays6(ImageOfLinked)
  BY <1>1, <1>2, <1>3 DEF Arrays6, ImageOfLinked, DescribedUpTo
<1>5. ImageOfLinked = [field \in ImageFields |-> ImageOfLinked[field]]
  BY DEF ImageOfLinked, ImageFields
<1>6. QED
  BY <1>4, <1>5

LEMMA LinkedDecodes ==
  ASSUME Inv, CodeInv, TablesHold, stage = "linked"
  PROVE  Decode(Encode(ImageOfLinked)) = ImageOfLinked
BY LinkedArrays, EncodeDecodes

LEMMA LinkedIsLast ==
  ASSUME stage = "linked"
  PROVE  ~ Next
<1>1. ~ ReadStruct /\ ~ ReadVariables /\ ~ RegisterDeclaration /\ ~ EndDeclarations
  BY DEF ReadStruct, ReadVariables, RegisterDeclaration, EndDeclarations
<1>2. ~ InitializeGlobal /\ ~ RegisterFunction /\ ~ FindEntry /\ ~ CompileFunction
  BY DEF InitializeGlobal, RegisterFunction, FindEntry, CompileFunction
<1>3. ~ MarkFromEntry /\ ~ Mark /\ ~ EndMark /\ ~ AssembleBlock /\ ~ EndAssembly
  BY DEF MarkFromEntry, Mark, EndMark, AssembleBlock, EndAssembly
<1>4. ~ LinkVariable /\ ~ EndVariables /\ ~ LinkExterns /\ ~ LinkFunction
  BY DEF LinkVariable, EndVariables, LinkExterns, LinkFunction
<1>5. ~ EndTables /\ ~ PatchCall /\ ~ EndLink
  BY DEF EndTables, PatchCall, EndLink
<1>6. QED
  BY <1>1, <1>2, <1>3, <1>4, <1>5 DEF Next

-----------------------------------------------------------------------------
(* What is published, and opened again, is what was linked.                *)

DataSound == DataInv /\ SlotsInv /\ TablesHold

PublishedInv ==
  /\ block # NoImage =>
       /\ stage = "linked" /\ BuildStatus(ImageOfLinked) = "OK"
       /\ block = Encode(ImageOfLinked)
  /\ opened # NoImage =>
       /\ stage = "linked"
       /\ opened.image = ImageOfLinked

LEMMA OkIsOk ==
  ASSUME BuildStatus(ImageOfLinked) = "OK"
  PROVE  /\ ImageStatus(ImageOfLinked) = "OK"
         /\ ~ (ImageOfLinked.entryPoint >= Len(ImageOfLinked.functions))
BY DEF BuildStatus

LEMMA PublishedStep ==
  ASSUME Inv, CodeInv, TablesHold, PublishedInv, [ImageNext]_<< vars, imageVars >>
  PROVE  PublishedInv'
<1>1. CASE Next /\ UNCHANGED imageVars
  <2>1. stage # "linked"
    BY <1>1, LinkedIsLast
  <2>2. block = NoImage /\ opened = NoImage
    BY <2>1 DEF PublishedInv
  <2>3. QED
    BY <1>1, <2>2 DEF PublishedInv, imageVars
<1>2. CASE BuildProgramImage
  <2>1. stage = "linked" /\ stage' = "linked" /\ opened' = opened
        /\ linked' = linked /\ sizes' = sizes
    BY <1>2 DEF BuildProgramImage, vars, layoutVars
  <2>2. ImageOfLinked' = ImageOfLinked
    BY <2>1 DEF ImageOfLinked
  <2>3. BuildStatus(ImageOfLinked)' = BuildStatus(ImageOfLinked)
    BY <2>1, <2>2 DEF BuildStatus, ImageStatus, FunctionStatus
  <2>4. block' # NoImage => /\ BuildStatus(ImageOfLinked) = "OK"
                            /\ block' = Encode(ImageOfLinked)
    BY <1>2 DEF BuildProgramImage
  <2>5. QED
    BY <2>1, <2>2, <2>3, <2>4 DEF PublishedInv
<1>3. CASE OpenProgramImage
  <2>1. block # NoImage /\ block' = block /\ stage' = stage
        /\ linked' = linked /\ sizes' = sizes
    BY <1>3 DEF OpenProgramImage, vars, layoutVars
  <2>2. stage = "linked" /\ BuildStatus(ImageOfLinked) = "OK"
        /\ block = Encode(ImageOfLinked)
    BY <2>1 DEF PublishedInv
  <2>3. Decode(block) = ImageOfLinked
    BY <2>2, LinkedDecodes
  <2>4. opened'.image = ImageOfLinked
    <3>1. ImageStatus(ImageOfLinked) = "OK"
      BY <2>2, OkIsOk
    <3>2. opened' = [status |-> ImageStatus(ImageOfLinked),
                     image |-> IF ImageStatus(ImageOfLinked) = "OK" THEN ImageOfLinked
                               ELSE NoImage]
      BY <1>3, <2>3 DEF OpenProgramImage
    <3>3. QED
      BY <3>1, <3>2
  <2>5. ImageOfLinked' = ImageOfLinked
    BY <2>1 DEF ImageOfLinked
  <2>6. BuildStatus(ImageOfLinked)' = BuildStatus(ImageOfLinked)
    BY <2>1, <2>5 DEF BuildStatus, ImageStatus, FunctionStatus
  <2>7. QED
    BY <2>1, <2>2, <2>4, <2>5, <2>6 DEF PublishedInv
<1>4. CASE OpenNatively \/ UNCHANGED << vars, imageVars >>
  <2>1. /\ block' = block /\ opened' = opened /\ stage' = stage
        /\ linked' = linked /\ sizes' = sizes
    BY <1>4 DEF OpenNatively, vars, layoutVars, imageVars
  <2>2. ImageOfLinked' = ImageOfLinked
    BY <2>1 DEF ImageOfLinked
  <2>3. BuildStatus(ImageOfLinked)' = BuildStatus(ImageOfLinked)
    BY <2>1, <2>2 DEF BuildStatus, ImageStatus, FunctionStatus
  <2>4. QED
    BY <2>1, <2>2, <2>3 DEF PublishedInv
<1>5. QED
  BY <1>1, <1>2, <1>3, <1>4 DEF ImageNext

LEMMA DataSoundInitially == Init => DataSound
<1> SUFFICES ASSUME Init PROVE DataSound
  OBVIOUS
<1>1. DataInv
  BY EmptyList DEF Init, LayoutInit, DataInv
<1>2. SlotsInv
  BY DEF Init, SlotsInv
<1>3. TablesHold
  BY EmptyList DEF Init, TablesHold, Range
<1>4. QED
  BY <1>1, <1>2, <1>3 DEF DataSound

LEMMA ImageSteps == [ImageNext]_<< vars, imageVars >> => [Next]_vars
BY DEF ImageNext, BuildProgramImage, OpenProgramImage, OpenNatively

LEMMA DataSoundInvariant == Spec => []DataSound
<1>1. Inv /\ DataSound /\ [Next]_vars => DataSound'
  <2> SUFFICES ASSUME Inv, DataSound, [Next]_vars PROVE DataSound'
    OBVIOUS
  <2>1. StageInv /\ SymbolsInv /\ LayoutInv /\ BlocksInv
    BY DEF Inv
  <2>2. QED
    BY <2>1, DataStep, SlotsStep, TablesHoldStep DEF DataSound
<1>2. QED
  BY DataSoundInitially, <1>1, Invariant, PTL DEF Spec

LEMMA PublishedInvariant ==
  ImageSpec => [](Inv /\ CodeInv /\ DataSound /\ PublishedInv)
<1>1. ImageSpec => Spec
  BY ImageSteps, PTL DEF ImageSpec, ImageInit, Spec
<1>2. ImageInit => PublishedInv
  BY DEF ImageInit, PublishedInv
<1>3. Inv /\ CodeInv /\ DataSound /\ PublishedInv /\ [ImageNext]_<< vars, imageVars >>
        => PublishedInv'
  BY PublishedStep DEF DataSound
<1>4. QED
  BY <1>1, <1>2, <1>3, DataSoundInvariant, Invariant, CodeInvariant, PTL DEF ImageSpec

(* cova/image.go, BuildProgramImage and LoadProgramImage: for every        *)
(* program, what the Go VM opens is the program that was linked - its      *)
(* text, tables, entry point, frame sizes and initial memory.              *)
THEOREM ImagesRoundTrip == ImageSpec => []ImageRoundTrips
<1>1. PublishedInv => ImageRoundTrips
  BY DEF PublishedInv, ImageRoundTrips
<1>2. QED
  BY <1>1, PublishedInvariant, PTL

-----------------------------------------------------------------------------
(* The tables of a block are what the native runtime asks for.             *)

(* The numbers of a descriptor. *)
IsCounted(f) ==
  f.body \in Nat /\ f.paramStart \in Nat /\ f.paramCount \in Nat /\ f.frame \in Nat

LEMMA StatusOfFunction ==
  ASSUME NEW image, NEW f, IsCounted(f),
         Len(image.text) \in Nat, Len(image.paramKinds) \in Nat,
         image.frameSize \in Nat, image.frameByteSize \in Nat,
         FunctionStatus(image, f) = "OK"
  PROVE  NativeFunctionValid(image, f)
<1> DEFINE text == Len(image.text)
           kinds == Len(image.paramKinds)
           count == f.paramCount
           start == f.paramStart
<1>1. /\ ~ (f.body >= text) /\ ~ (start > kinds) /\ ~ (count > kinds - start)
      /\ ~ (start + count > image.frameSize) /\ ~ (f.frame > image.frameByteSize)
  BY DEF FunctionStatus
<1>2. text \in Nat /\ kinds \in Nat /\ count \in Nat /\ start \in Nat
  BY DEF IsCounted
<1> HIDE DEF text, kinds, count, start
<1>3. /\ f.body < text /\ start <= kinds /\ count <= kinds - start
      /\ start + count <= image.frameSize /\ f.frame <= image.frameByteSize
  BY <1>1, <1>2 DEF IsCounted
<1>4. QED
  BY <1>3 DEF text, kinds, count, start, NativeFunctionValid

LEMMA StatusOfImage ==
  ASSUME NEW image, IsList(image.functions), image.entryPoint \in Nat,
         ImageStatus(image) = "OK"
  PROVE  /\ Len(image.paramKinds) = Len(image.paramOffsets)
         /\ image.entryPoint < Len(image.functions)
         /\ \A i \in DOMAIN image.functions :
              FunctionStatus(image, image.functions[i]) = "OK"
<1> DEFINE bad == { i \in DOMAIN image.functions :
                      FunctionStatus(image, image.functions[i]) # "OK" }
<1>1. /\ Len(image.paramKinds) = Len(image.paramOffsets)
      /\ ~ (image.entryPoint >= Len(image.functions))
      /\ bad # {} => FunctionStatus(image, image.functions[Min(bad)]) = "OK"
  <2> HIDE DEF bad
  <2>1. ImageStatus(image) =
          IF Len(image.paramKinds) # Len(image.paramOffsets) THEN "InvalidParameter"
          ELSE IF image.entryPoint >= Len(image.functions) THEN "InvalidTarget"
          ELSE IF bad # {} THEN FunctionStatus(image, image.functions[Min(bad)])
          ELSE "OK"
    BY DEF ImageStatus, bad
  <2>2. QED
    BY <2>1
<1>2. Len(image.functions) \in Nat /\ DOMAIN image.functions = 1 .. Len(image.functions)
  BY Lists
<1>3. bad = {}
  <2> SUFFICES ASSUME bad # {} PROVE FALSE
    OBVIOUS
  <2>1. bad \in SUBSET Nat
    BY <1>2
  <2> DEFINE Refused(i) == FunctionStatus(image, image.functions[i]) # "OK"
  <2>2. ~ Refused(Min(bad))
    BY <1>1
  <2>3. \A i \in bad : Refused(i)
    OBVIOUS
  <2> HIDE DEF bad, Refused
  <2>4. \E x \in bad : \A y \in bad : x <= y
    BY <2>1, LeastNatural
  <2>5. Min(bad) \in bad
    BY <2>4 DEF Min
  <2>6. QED
    BY <2>2, <2>3, <2>5
<1>4. image.entryPoint < Len(image.functions)
  <2> DEFINE length == Len(image.functions)
  <2>1. length \in Nat /\ ~ (image.entryPoint >= length)
    BY <1>1, <1>2
  <2> HIDE DEF length
  <2>2. image.entryPoint < length
    BY <2>1
  <2>3. QED
    BY <2>2 DEF length
<1>5. QED
  BY <1>1, <1>3, <1>4

LEMMA LinkedCounts ==
  ASSUME Inv, CodeInv, stage = "linked"
  PROVE  /\ \A k \in DOMAIN linked.functions : IsCounted(linked.functions[k])
         /\ linked.frameByteSize \in Nat
         /\ linked.entryPoint \in Nat
<1>1. /\ StageInv /\ SymbolsInv /\ LayoutInv /\ BlocksInv /\ GraphInv /\ WalkInv
      /\ AssemblyInv /\ TablesInv /\ AllBound
      /\ stage \notin {"structs", "failed"}
      /\ Compiled = Len(source.functions) /\ Assembled = Len(source.functions)
      /\ Described = Len(program.functions)
  BY LinkedStage
<1>2. /\ AssembledUpTo(Assembled, program) /\ DescribedUpTo(Len(program.functions), linked)
      /\ linked.frameByteSize = program.frameBytes
  BY <1>1 DEF AssemblyInv, TablesInv
<1>3. /\ TextOf(program) /\ IndicesInv
      /\ linked.entryPoint = linked.index[EntryFunction]
  BY <1>1 DEF CodeInv, TextInv, LinkedInv
<1>4. /\ Len(linked.functions) = Len(program.functions)
      /\ DOMAIN linked.functions = 1 .. Len(linked.functions)
  BY <1>2, Lists DEF DescribedUpTo
<1>5. ASSUME NEW k \in DOMAIN linked.functions
      PROVE  IsCounted(linked.functions[k])
  <2> DEFINE g == program.functions[k]
             d == linked.functions[k]
  <2>1. k \in 1 .. Len(program.functions) /\ k \in 1 .. Len(linked.functions)
    BY <1>4
  <2>2. d.body = g.address /\ g.address \in Nat
    BY <1>3, <2>1 DEF IndicesInv, TextOf, HoldsBlock
  <2>3. d.frame = g.frame /\ d.paramCount = Len(g.params) /\ d.paramStart \in Nat
    BY <1>2, <2>1 DEF DescribedUpTo, DescribesFunction
  <2>4. PICK i \in 1 .. Assembled :
          LET f == Fun(i)
              of == program.functions[k]
              layout == FrameLayout(ParamTypes(f.params) \o f.locals)
          IN  of.frame = layout.size /\ IsList(of.params)
    <3>1. \E i \in 1 .. Assembled :
            LET f == Fun(i)
                of == program.functions[k]
                layout == FrameLayout(ParamTypes(f.params) \o f.locals)
            IN  /\ IdOf(i) \in Visited /\ of.id = IdOf(i)
                /\ of.frame = layout.size /\ of.result = f.result
                /\ of.params = ParamTypes(f.params)
                /\ IsList(of.params) /\ Len(of.params) = Len(f.params)
                /\ IsList(of.offsets) /\ Len(of.offsets) = Len(f.params)
                /\ \A m \in 1 .. Len(f.params) : of.offsets[m] = layout.offsets[m]
      <4> HIDE DEF g, d
      <4>1. QED
        BY <1>1, <2>1, TextFunctions, Zenon
    <3>2. QED
      BY <3>1, Zenon
  <2>5. g.frame \in Nat
    <3>1. FrameLayout(ParamTypes(Fun(i).params) \o Fun(i).locals).size \in Nat
      BY <1>1, <2>4, FrameIsLaid
    <3>2. QED
      BY <2>4, <3>1, Zenon
  <2>6. Len(g.params) \in Nat
    BY <2>4, Lists
  <2> HIDE DEF g, d
  <2>7. d.body \in Nat /\ d.paramStart \in Nat /\ d.paramCount \in Nat /\ d.frame \in Nat
    BY <2>2, <2>3, <2>5, <2>6
  <2>8. QED
    BY <2>7 DEF IsCounted, d
<1>6. linked.entryPoint \in Nat
  <2>1. EntryFunction \in DOMAIN linked.index
    BY <1>1, KeptIsIndexed
  <2>2. PICK k \in 1 .. Len(program.functions) : EntryFunction = program.functions[k].id
    BY <1>2, <2>1 DEF DescribedUpTo
  <2>3. linked.index[program.functions[k].id] = k - 1
    BY <1>3, <1>4, <2>2 DEF IndicesInv
  <2>4. linked.entryPoint = k - 1
    BY <1>3, <2>2, <2>3
  <2>5. QED
    BY <2>4
<1>7. linked.frameByteSize \in Nat
  BY <1>2 DEF AssembledUpTo
<1>8. QED
  BY <1>5, <1>6, <1>7

LEMMA PublishedTables ==
  ASSUME Inv, CodeInv, TablesHold, PublishedInv, block # NoImage
  PROVE  NativeTablesValid(Decode(block))
<1> DEFINE image == ImageOfLinked
<1>1. stage = "linked" /\ BuildStatus(image) = "OK" /\ Decode(block) = image
  BY LinkedDecodes DEF PublishedInv
<1>2. /\ image.functions = linked.functions /\ image.text = linked.text
      /\ image.paramKinds = linked.paramKinds /\ image.frameSize = linked.frameSize
      /\ image.frameByteSize = linked.frameByteSize
      /\ image.entryPoint = linked.entryPoint
  BY DEF ImageOfLinked
<1>3. ImageStatus(image) = "OK"
  BY <1>1, OkIsOk
<1>4. IsList(image.functions) /\ IsList(image.text) /\ IsList(image.paramKinds)
  BY <1>1, LinkedArrays DEF Arrays6
<1>5. /\ \A k \in DOMAIN image.functions : IsCounted(image.functions[k])
      /\ image.frameByteSize \in Nat /\ image.entryPoint \in Nat
  BY <1>1, <1>2, LinkedCounts
<1>6. image.frameSize \in Nat /\ "Void" \notin Range(image.paramKinds)
  BY <1>2 DEF TablesHold
<1> HIDE DEF image
<1>7. Len(image.text) \in Nat /\ Len(image.paramKinds) \in Nat
  BY <1>4, Lists
<1>8. /\ Len(image.paramKinds) = Len(image.paramOffsets)
      /\ image.entryPoint < Len(image.functions)
      /\ \A i \in DOMAIN image.functions :
           FunctionStatus(image, image.functions[i]) = "OK"
  BY <1>3, <1>4, <1>5, StatusOfImage
<1>9. \A i \in DOMAIN image.functions : NativeFunctionValid(image, image.functions[i])
  BY <1>5, <1>6, <1>7, <1>8, StatusOfFunction
<1>10. image.functions # << >>
  <2>1. ~ (image.entryPoint < 0)
    BY <1>5
  <2>2. QED
    BY <1>8, <2>1, EmptyList
<1>11. NativeTablesValid(image)
  BY <1>6, <1>8, <1>9, <1>10 DEF NativeTablesValid
<1>12. QED
  BY <1>1, <1>11

(* linked_program.cpp, the checks of the tables: for every program, the    *)
(* tables of a block are what the native runtime asks for - no parameter   *)
(* is void, and every slice, frame and body is within its bounds.          *)
THEOREM NativeTablesSound == ImageSpec => []NativeTablesHold
<1>1. Inv /\ CodeInv /\ DataSound /\ PublishedInv => NativeTablesHold
  BY PublishedTables DEF NativeTablesHold, DataSound
<1>2. QED
  BY <1>1, PublishedInvariant, PTL

-----------------------------------------------------------------------------
(* Types: each is made of types that are laid out as well.                 *)

FieldsLaid(type, T) ==
  /\ IsList(type.fields)
  /\ \A i \in 1 .. Len(type.fields) :
       LET field == type.fields[i]
       IN  /\ field.type \in T
           /\ field.type.alignment <= type.alignment
           /\ field.offset \in Nat /\ field.offset % field.type.alignment = 0
           /\ field.offset + field.type.size <= type.size
           /\ \A j \in 1 .. Len(type.fields) :
                /\ i < j => field.offset + field.type.size <= type.fields[j].offset
                /\ field.name = type.fields[j].name => i = j

ItemsLaid(type, T) ==
  /\ type.base \in T /\ type.count \in Nat
  /\ type.size = type.base.size * type.count
  /\ type.alignment = type.base.alignment

LaidAmong(type, T) ==
  /\ IsDescriptor(type)
  /\ type.size % type.alignment = 0
  /\ type.size > 0 \/ type.alignment = 1
  /\ type.form = "array" => ItemsLaid(type, T)
  /\ type.form = "struct" => FieldsLaid(type, T)

IsLaidSet(T) == \A type \in T : LaidAmong(type, T)
WellLaid(type) == \E T : type \in T /\ IsLaidSet(T)
MadeOf(type) == CHOOSE T : type \in T /\ IsLaidSet(T)

LEMMA LaidAmongMore ==
  ASSUME NEW type, NEW T, NEW U, LaidAmong(type, T), T \subseteq U
  PROVE  LaidAmong(type, U)
<1>1. ItemsLaid(type, T) => ItemsLaid(type, U)
  BY DEF ItemsLaid
<1>2. FieldsLaid(type, T) => FieldsLaid(type, U)
  BY DEF FieldsLaid
<1>3. QED
  BY <1>1, <1>2 DEF LaidAmong

(* A type made of types that are laid out, and laid out itself. *)
LEMMA MadeOfLaid ==
  ASSUME NEW type, NEW parts, \A part \in parts : WellLaid(part),
         LaidAmong(type, parts)
  PROVE  WellLaid(type)
<1> DEFINE below == UNION { MadeOf(part) : part \in parts }
           T == below \cup {type}
<1>1. \A part \in parts : part \in MadeOf(part) /\ IsLaidSet(MadeOf(part))
  BY DEF WellLaid, MadeOf
<1>2. parts \subseteq below
  BY <1>1
<1>3. ASSUME NEW t \in below PROVE LaidAmong(t, T)
  <2>1. PICK part \in parts : t \in MadeOf(part)
    OBVIOUS
  <2>2. LaidAmong(t, MadeOf(part))
    BY <1>1, <2>1 DEF IsLaidSet
  <2>3. MadeOf(part) \subseteq T
    OBVIOUS
  <2> HIDE DEF T
  <2>4. QED
    BY <2>2, <2>3, LaidAmongMore
<1>4. LaidAmong(type, T)
  <2>1. parts \subseteq T
    BY <1>2
  <2> HIDE DEF T
  <2>2. QED
    BY <2>1, LaidAmongMore
<1>5. IsLaidSet(T)
  BY <1>3, <1>4 DEF IsLaidSet
<1>6. type \in T
  OBVIOUS
<1> HIDE DEF T
<1>7. QED
  BY <1>5, <1>6 DEF WellLaid

LEMMA WellLaidType ==
  ASSUME NEW type, WellLaid(type)
  PROVE  /\ IsDescriptor(type)
         /\ type.size % type.alignment = 0
         /\ type.size > 0 \/ type.alignment = 1
BY DEF WellLaid, IsLaidSet, LaidAmong

-----------------------------------------------------------------------------
(* Multiples.                                                              *)

LEMMA MultipleOf ==
  ASSUME NEW size \in Nat, NEW count \in Nat, NEW alignment \in {1, 4, 8},
         size % alignment = 0
  PROVE  size * count \in Nat /\ (size * count) % alignment = 0
<1>1. PICK k \in Nat : size = alignment * k
  <2>1. CASE alignment = 1
    BY <2>1
  <2>2. CASE alignment = 4
    <3>1. size \div 4 \in Nat /\ size = 4 * (size \div 4)
      BY <2>2
    <3>2. QED
      BY <2>2, <3>1
  <2>3. CASE alignment = 8
    <3>1. size \div 8 \in Nat /\ size = 8 * (size \div 8)
      BY <2>3
    <3>2. QED
      BY <2>3, <3>1
  <2>4. QED
    BY <2>1, <2>2, <2>3
<1> DEFINE m == k * count
<1>2. m \in Nat
  OBVIOUS
<1>3. size * count = alignment * m
  BY <1>1
<1> HIDE DEF m
<1>4. CASE alignment = 1
  BY <1>2, <1>3, <1>4
<1>5. CASE alignment = 4
  BY <1>2, <1>3, <1>5
<1>6. CASE alignment = 8
  BY <1>2, <1>3, <1>6
<1>7. QED
  BY <1>4, <1>5, <1>6

LEMMA MultiplesInOrder ==
  ASSUME NEW size \in Nat, NEW i \in Nat, NEW j \in Nat, i < j
  PROVE  i * size + size <= j * size
<1>1. PICK d \in Nat : j = i + 1 + d
  <2>1. j - i - 1 \in Nat /\ j = i + 1 + (j - i - 1)
    OBVIOUS
  <2>2. QED
    BY <2>1
<1>2. d * size \in Nat
  OBVIOUS
<1>3. j * size = i * size + size + d * size
  BY <1>1
<1>4. i * size \in Nat
  OBVIOUS
<1>5. QED
  BY <1>2, <1>3, <1>4

LEMMA AlignedSum ==
  ASSUME NEW a \in Nat, NEW b \in Nat, NEW large \in {1, 4, 8}, NEW small \in {1, 4, 8},
         small <= large, a % large = 0, b % small = 0
  PROVE  (a + b) % small = 0
<1>1. CASE small = 1
  BY <1>1
<1>2. CASE small = 4
  BY <1>2
<1>3. CASE small = 8
  BY <1>3
<1>4. QED
  BY <1>1, <1>2, <1>3

-----------------------------------------------------------------------------
LEMMA ScalarsWellLaid == \A name \in DOMAIN SizeOf : WellLaid(Scalar(name))
<1> SUFFICES ASSUME NEW name \in DOMAIN SizeOf PROVE WellLaid(Scalar(name))
  OBVIOUS
<1>1. name \in {"Void", "Bool", "Uint8", "Int32", "Text", "Pointer", "Int64"}
  BY DEF SizeOf
<1>2. SizeOf[name] \in {0, 1, 4, 8}
  BY <1>1 DEF SizeOf
<1>3. LaidAmong(Scalar(name), {})
  BY <1>2 DEF LaidAmong, IsDescriptor, Scalar
<1>4. QED
  BY <1>3, MadeOfLaid

LEMMA ArrayWellLaid ==
  ASSUME NEW base, WellLaid(base), NEW count \in Nat, count > 0
  PROVE  WellLaid(ArrayOf(base, count))
<1> DEFINE type == ArrayOf(base, count)
<1>1. /\ base.size \in Nat /\ base.alignment \in {1, 4, 8}
      /\ base.size % base.alignment = 0
      /\ base.size > 0 \/ base.alignment = 1
  BY WellLaidType DEF IsDescriptor
<1>2. /\ type.size = base.size * count /\ type.alignment = base.alignment
      /\ type.form = "array" /\ type.base = base /\ type.count = count
  BY DEF ArrayOf
<1> HIDE DEF type
<1> DEFINE size == base.size
           alignment == base.alignment
<1>3. type.size \in Nat /\ type.size % type.alignment = 0
  <2>1. size \in Nat /\ alignment \in {1, 4, 8} /\ size % alignment = 0
    BY <1>1
  <2> HIDE DEF size, alignment
  <2>2. size * count \in Nat /\ (size * count) % alignment = 0
    BY <2>1, MultipleOf
  <2>3. QED
    BY <1>2, <2>2 DEF size, alignment
<1>4. type.size > 0 \/ type.alignment = 1
  <2>1. size \in Nat /\ (size > 0 \/ alignment = 1)
    BY <1>1
  <2> HIDE DEF size, alignment
  <2>2. size > 0 => size * count > 0
    BY <2>1
  <2>3. QED
    BY <1>2, <2>1, <2>2 DEF size, alignment
<1>5. ItemsLaid(type, {base})
  BY <1>2 DEF ItemsLaid
<1>6. LaidAmong(type, {base})
  BY <1>1, <1>2, <1>3, <1>4, <1>5 DEF LaidAmong, IsDescriptor
<1>7. QED
  BY <1>6, MadeOfLaid DEF type

LEMMA WrittenWellLaid ==
  ASSUME \A name \in DOMAIN types : WellLaid(types[name]),
         NEW written, TypeAccepted(written), written.counts \in Seq(Nat)
  PROVE  WellLaid(TypeOf(written))
<1> DEFINE base == types[written.name]
           counts == written.counts
           made == Arrays(base, counts)
           T == { i \in 0 .. Len(counts) : WellLaid(made[i]) }
<1>1. WellLaid(base) /\ Len(counts) \in Nat
      /\ \A i \in 1 .. Len(counts) : counts[i] \in Nat /\ counts[i] > 0
  BY DEF TypeAccepted
<1>2. made[0] = base /\ \A i \in 1 .. Len(counts) : made[i] = ArrayOf(made[i - 1], counts[i])
  BY <1>1, ArraysByStep
<1> HIDE DEF base, counts, made
<1>3. 0 \in T
  BY <1>1, <1>2
<1>4. ASSUME NEW i \in 1 .. Len(counts), i - 1 \in T
      PROVE  i \in T
  <2>1. WellLaid(made[i - 1]) /\ counts[i] \in Nat /\ counts[i] > 0
    BY <1>1, <1>4
  <2>2. WellLaid(ArrayOf(made[i - 1], counts[i]))
    BY <2>1, ArrayWellLaid
  <2>3. QED
    BY <1>2, <2>2
<1> HIDE DEF T
<1>5. 0 .. Len(counts) \subseteq T
  BY <1>1, <1>3, <1>4, CountingUp
<1>6. Len(counts) \in T
  BY <1>1, <1>5
<1>7. QED
  BY <1>6 DEF T, TypeOf, made, base, counts

-----------------------------------------------------------------------------
(* Values one after another.                                               *)

LEMMA LaidApart ==
  ASSUME NEW list, Len(list) \in Nat,
         \A i \in 1 .. Len(list) : IsDescriptor(list[i]),
         NEW first \in 1 .. Len(list), NEW later \in 1 .. Len(list), first < later
  PROVE  Laid(list).offsets[first] + list[first].size <= Laid(list).offsets[later]
<1> DEFINE offsets == Laid(list).offsets
           end == offsets[first] + list[first].size
           T == { i \in 0 .. Len(list) : i <= first \/ end <= offsets[i] }
<1>1. /\ \A i \in 1 .. Len(list) :
           offsets[i] \in Nat /\ list[i].size \in Nat
      /\ \A i \in 1 .. Len(list) - 1 : offsets[i] + list[i].size <= offsets[i + 1]
  BY LaidInOrder DEF IsDescriptor
<1> HIDE DEF offsets
<1>2. end \in Nat
  BY <1>1
<1>3. ASSUME NEW i \in 1 .. Len(list), i - 1 \in T
      PROVE  i \in T
  <2>1. CASE i <= first
    BY <2>1
  <2>2. CASE i = first + 1
    BY <1>1, <2>2
  <2>3. CASE i > first + 1
    <3>1. i - 1 \in 1 .. Len(list) - 1 /\ i - 1 \in 1 .. Len(list) /\ (i - 1) + 1 = i
      BY <2>3
    <3>2. end <= offsets[i - 1]
      BY <1>3, <2>3
    <3>3. offsets[i - 1] + list[i - 1].size <= offsets[i]
      BY <1>1, <3>1
    <3>4. offsets[i - 1] \in Nat /\ list[i - 1].size \in Nat /\ offsets[i] \in Nat
      BY <1>1, <3>1
    <3> HIDE DEF end
    <3>5. end <= offsets[i]
      BY <1>2, <3>2, <3>3, <3>4
    <3>6. QED
      BY <3>5
  <2>4. QED
    BY <2>1, <2>2, <2>3
<1>4. 0 \in T
  OBVIOUS
<1> HIDE DEF T
<1>5. 0 .. Len(list) \subseteq T
  BY <1>3, <1>4, CountingUp
<1>6. later \in T
  BY <1>5
<1> HIDE DEF end
<1>7. end <= offsets[later]
  BY <1>6 DEF T
<1>8. QED
  BY <1>7 DEF end, offsets

(* One more after the others leaves them where they are. *)
LEMMA LaidLonger ==
  ASSUME NEW list, Len(list) \in Nat,
         NEW longer, Len(longer) = Len(list) + 1,
         \A i \in 1 .. Len(list) : longer[i] = list[i]
  PROVE  LET last == longer[Len(list) + 1]
             start == AlignUp(Laid(list).size, last.alignment)
         IN  /\ \A i \in 1 .. Len(list) :
                  Laid(longer).offsets[i] = Laid(list).offsets[i]
             /\ Laid(longer).offsets[Len(list) + 1] = start
             /\ Laid(longer).size = start + last.size
<1> DEFINE end == Ends(list)
           more == Ends(longer)
           n == Len(list)
           T == { i \in 0 .. n : more[i] = end[i] }
<1>1. /\ end[0] = 0
      /\ \A i \in 1 .. n :
           end[i] = AlignUp(end[i - 1], list[i].alignment) + list[i].size
  BY EndsByStep
<1>2. /\ more[0] = 0
      /\ \A i \in 1 .. n + 1 :
           more[i] = AlignUp(more[i - 1], longer[i].alignment) + longer[i].size
  BY EndsByStep
<1>3. /\ Laid(list).size = end[n]
      /\ \A i \in 1 .. n :
           Laid(list).offsets[i] = AlignUp(end[i - 1], list[i].alignment)
  BY DEF Laid
<1>4. /\ Laid(longer).size = more[n + 1]
      /\ \A i \in 1 .. n + 1 :
           Laid(longer).offsets[i] = AlignUp(more[i - 1], longer[i].alignment)
  BY DEF Laid
<1> HIDE DEF end, more
<1>5. 0 \in T
  BY <1>1, <1>2
<1>6. ASSUME NEW i \in 1 .. n, i - 1 \in T
      PROVE  i \in T
  <2>1. more[i - 1] = end[i - 1] /\ longer[i] = list[i]
    BY <1>6
  <2>2. i \in 1 .. n + 1
    OBVIOUS
  <2>3. more[i] = end[i]
    BY <1>1, <1>2, <2>1, <2>2
  <2>4. QED
    BY <2>3
<1> HIDE DEF T
<1>7. 0 .. n \subseteq T
  BY <1>5, <1>6, CountingUp
<1>8. \A i \in 0 .. n : more[i] = end[i]
  BY <1>7 DEF T
<1>9. ASSUME NEW i \in 1 .. n
      PROVE  Laid(longer).offsets[i] = Laid(list).offsets[i]
  <2>1. i - 1 \in 0 .. n /\ i \in 1 .. n + 1
    OBVIOUS
  <2>2. QED
    BY <1>3, <1>4, <1>8, <2>1
<1>10. n \in 0 .. n /\ n + 1 \in 1 .. n + 1 /\ (n + 1) - 1 = n
  OBVIOUS
<1>11. more[n] = end[n]
  BY <1>8, <1>10
<1>12. /\ Laid(longer).offsets[n + 1] = AlignUp(end[n], longer[n + 1].alignment)
       /\ more[n + 1] = AlignUp(end[n], longer[n + 1].alignment) + longer[n + 1].size
  BY <1>2, <1>4, <1>10, <1>11
<1>13. QED
  BY <1>3, <1>4, <1>9, <1>12

-----------------------------------------------------------------------------
(* A struct of types that are laid out. *)
LEMMA StructWellLaid ==
  ASSUME \A name \in DOMAIN types : WellLaid(types[name]),
         NEW fields, IsList(fields), FieldsAccepted(fields),
         \A field \in Range(fields) : field.type.counts \in Seq(Nat)
  PROVE  WellLaid(StructOf(fields))
<1> DEFINE list == [i \in DOMAIN fields |-> TypeOf(fields[i].type)]
           laid == Laid(list)
           S == {1} \cup { list[i].alignment : i \in DOMAIN list }
           alignment == Max(S)
           T == { list[i] : i \in DOMAIN fields }
           made == [i \in DOMAIN fields |->
                      [name |-> fields[i].name, type |-> list[i],
                       offset |-> laid.offsets[i]]]
           struct == StructOf(fields)
           n == Len(fields)
<1>1. /\ DOMAIN fields = 1 .. n /\ n \in Nat
      /\ \A i \in 1 .. n : fields[i] \in Range(fields)
  BY Lists
<1>2. n > 0
  <2>1. fields # << >> /\ fields \in Seq(Range(fields))
    BY DEF FieldsAccepted, IsList
  <2>2. QED
    BY <1>1, <2>1
<1>3. \A i \in 1 .. n : WellLaid(TypeOf(fields[i].type)) /\ TypeOf(fields[i].type).size > 0
  <2>1. \A i \in 1 .. n :
          /\ TypeAccepted(fields[i].type) /\ fields[i].type.counts \in Seq(Nat)
          /\ TypeOf(fields[i].type).size > 0
    BY <1>1 DEF FieldsAccepted, Complete
  <2>2. QED
    BY <2>1, WrittenWellLaid
<1>4. /\ DOMAIN list = 1 .. n /\ Len(list) = n
      /\ \A i \in 1 .. n : WellLaid(list[i]) /\ list[i].size > 0
  BY <1>1, <1>3
<1>5. /\ struct.form = "struct" /\ struct.alignment = alignment
      /\ struct.size = Rounded(laid.size, alignment)
      /\ struct.fields = made
  BY DEF StructOf
<1>6. /\ DOMAIN made = 1 .. n
      /\ \A i \in 1 .. n : /\ made[i].name = fields[i].name
                           /\ made[i].type = list[i]
                           /\ made[i].offset = laid.offsets[i]
  BY <1>1
<1>7. IsList(made)
  <2> DEFINE Made(i) == [name |-> fields[i].name, type |-> list[i],
                         offset |-> laid.offsets[i]]
             U == { Made(i) : i \in 1 .. n }
  <2>1. made = [i \in 1 .. n |-> Made(i)]
    BY <1>1
  <2> HIDE DEF made, Made
  <2>2. made \in Seq(U)
    BY <1>1, <2>1
  <2> HIDE DEF U
  <2>3. QED
    BY <2>2, ListIsSeq
<1>8. Len(made) = n
  <2>1. DOMAIN made = 1 .. n /\ Len(made) \in Nat /\ DOMAIN made = 1 .. Len(made)
    BY <1>6, <1>7, Lists
  <2>2. QED
    BY <1>1, <2>1
<1> HIDE DEF list, struct, made
<1>9. \A i \in 1 .. n : IsDescriptor(list[i]) /\ list[i].size % list[i].alignment = 0
  BY <1>4, WellLaidType
<1>10. /\ laid.size \in Nat
       /\ \A i \in 1 .. n :
            /\ laid.offsets[i] \in Nat
            /\ laid.offsets[i] % list[i].alignment = 0
            /\ laid.offsets[i] + list[i].size <= laid.size
  BY <1>1, <1>4, <1>9, LaidInOrder
<1>11. \A i, j \in 1 .. n :
         i < j => laid.offsets[i] + list[i].size <= laid.offsets[j]
  BY <1>1, <1>4, <1>9, LaidApart
<1>12. S \subseteq {1, 4, 8} /\ 1 \in S
  BY <1>4, <1>9 DEF IsDescriptor
<1>13. alignment \in {1, 4, 8} /\ \A x \in S : x <= alignment
  <2> HIDE DEF S
  <2>1. \E x \in S : \A y \in S : x >= y
    <3>1. CASE 8 \in S
      BY <1>12, <3>1
    <3>2. CASE 8 \notin S /\ 4 \in S
      BY <1>12, <3>2
    <3>3. CASE 8 \notin S /\ 4 \notin S
      BY <1>12, <3>3
    <3>4. QED
      BY <3>1, <3>2, <3>3
  <2>2. alignment \in S /\ \A y \in S : alignment >= y
    BY <2>1 DEF Max
  <2>3. QED
    BY <1>12, <2>2
<1>14. \A i \in 1 .. n : list[i].alignment <= alignment
  BY <1>4, <1>13
<1> HIDE DEF laid, alignment
<1>15. /\ struct.size \in Nat /\ struct.size % alignment = 0 /\ laid.size <= struct.size
  BY <1>5, <1>10, <1>13, Aligned DEF Rounded
<1>16. laid.size > 0
  <2>1. 1 \in 1 .. n
    BY <1>1, <1>2
  <2>2. laid.offsets[1] \in Nat /\ laid.offsets[1] + list[1].size <= laid.size
        /\ list[1].size > 0 /\ list[1].size \in Nat
    BY <1>4, <1>9, <1>10, <2>1 DEF IsDescriptor
  <2>3. QED
    BY <1>10, <2>2
<1>17. struct.size > 0
  BY <1>10, <1>15, <1>16
<1>18. FieldsLaid(struct, T)
  <2>1. \A i, j \in 1 .. n : fields[i].name = fields[j].name => i = j
    BY <1>1 DEF FieldsAccepted
  <2>2. ASSUME NEW i \in 1 .. n
        PROVE  /\ made[i].type \in T
               /\ made[i].type.alignment <= struct.alignment
               /\ made[i].offset \in Nat /\ made[i].offset % made[i].type.alignment = 0
               /\ made[i].offset + made[i].type.size <= struct.size
    <3>1. made[i].type = list[i] /\ made[i].offset = laid.offsets[i]
      BY <1>6
    <3>2. list[i] \in T
      BY <1>1
    <3>3. laid.offsets[i] + list[i].size <= struct.size
      <4>1. laid.offsets[i] \in Nat /\ list[i].size \in Nat
        BY <1>9, <1>10 DEF IsDescriptor
      <4>2. QED
        BY <1>10, <1>15, <4>1
    <3>4. QED
      BY <1>5, <1>10, <1>14, <3>1, <3>2, <3>3
  <2>3. \A i, j \in 1 .. n :
          /\ i < j => made[i].offset + made[i].type.size <= made[j].offset
          /\ made[i].name = made[j].name => i = j
    BY <1>6, <1>11, <2>1
  <2>4. struct.fields = made
    BY <1>5
  <2> HIDE DEF T
  <2>5. QED
    BY <1>7, <1>8, <2>2, <2>3, <2>4 DEF FieldsLaid
<1>19. LaidAmong(struct, T)
  BY <1>5, <1>13, <1>15, <1>17, <1>18 DEF LaidAmong, IsDescriptor
<1>20. \A part \in T : WellLaid(part)
  BY <1>1, <1>4
<1> HIDE DEF T
<1>21. QED
  BY <1>19, <1>20, MadeOfLaid DEF struct

-----------------------------------------------------------------------------
(* The parts of a value lie in it, each for itself.                        *)

Leads(part, offset, type) ==
  /\ DOMAIN part = {"ok", "segment", "offset", "type"}
  /\ part.ok = TRUE
  /\ part.offset = offset
  /\ part.type = type

IsPart(part) ==
  /\ Leads(part, part.offset, part.type)
  /\ WellLaid(part.type)
  /\ part.offset \in Nat /\ part.offset % part.type.alignment = 0

Within(part, outer) ==
  outer.offset <= part.offset /\ EndOfPart(part) <= EndOfPart(outer)

Apart(one, other) ==
  EndOfPart(one) <= other.offset \/ EndOfPart(other) <= one.offset

LEMMA PartBounds ==
  ASSUME NEW part, IsPart(part)
  PROVE  /\ part.offset \in Nat /\ part.type.size \in Nat
         /\ part.type.alignment \in {1, 4, 8}
         /\ EndOfPart(part) \in Nat /\ part.offset <= EndOfPart(part)
         /\ part.ok = TRUE
<1>1. part.offset \in Nat /\ part.type.size \in Nat /\ part.type.alignment \in {1, 4, 8}
  BY WellLaidType DEF IsPart, IsDescriptor
<1>2. part.ok = TRUE
  BY DEF IsPart, Leads
<1>3. QED
  BY <1>1, <1>2 DEF EndOfPart

LEMMA PartMoved ==
  ASSUME NEW part, NEW offset, NEW type, NEW more, NEW other, Leads(part, offset, type)
  PROVE  Leads([part EXCEPT !.offset = @ + more, !.type = other], offset + more, other)
BY DEF Leads

(* A step into a struct leads to one of its fields. *)
LEMMA MemberFound ==
  ASSUME NEW part, IsPart(part), part.type.form = "struct",
         NEW step \in StepsInto(part.type)
  PROVE  LET fields == part.type.fields
         IN  /\ \E T : IsLaidSet(T) /\ FieldsLaid(part.type, T)
             /\ \E i \in 1 .. Len(fields) :
                  /\ step = Member(fields[i].name)
                  /\ Leads(PartAt(part, step), part.offset + fields[i].offset, fields[i].type)
<1> DEFINE fields == part.type.fields
<1>1. PICK T : IsLaidSet(T) /\ part.type \in T /\ FieldsLaid(part.type, T)
  BY DEF IsPart, WellLaid, IsLaidSet, LaidAmong
<1>2. IsList(fields)
  BY <1>1 DEF FieldsLaid
<1>3. DOMAIN fields = 1 .. Len(fields)
  BY <1>2, Lists
<1>4. Range(fields) = { fields[i] : i \in 1 .. Len(fields) }
  BY <1>3 DEF Range
<1>5. PICK i \in 1 .. Len(fields) : step = Member(fields[i].name)
  BY <1>4 DEF StepsInto
<1>6. \A j \in 1 .. Len(fields) : fields[i].name = fields[j].name => i = j
  BY <1>1 DEF FieldsLaid
<1> DEFINE found == CHOOSE f \in Range(fields) : f.name = fields[i].name
<1>7. found = fields[i]
  <2>1. fields[i] \in Range(fields)
    BY <1>4
  <2>2. found \in Range(fields) /\ found.name = fields[i].name
    BY <2>1
  <2>3. PICK j \in 1 .. Len(fields) : found = fields[j]
    BY <1>4, <2>2
  <2>4. QED
    BY <1>6, <2>2, <2>3
<1>8. step.by = "member" /\ step.field = fields[i].name
  BY <1>5 DEF Member
<1>9. ~ StepRefused(part.type, step) /\ part.ok
  <2>1. fields[i] \in Range(fields)
    BY <1>4
  <2>2. QED
    BY <1>8, <2>1 DEF StepRefused, IsPart, Leads
<1>10. PartAt(part, step) = MemberAt(part, fields[i].name)
  BY <1>8, <1>9 DEF PartAt
<1>11. MemberAt(part, fields[i].name)
         = [part EXCEPT !.offset = @ + fields[i].offset, !.type = fields[i].type]
  BY <1>7 DEF MemberAt
<1>12. Leads(PartAt(part, step), part.offset + fields[i].offset, fields[i].type)
  <2> DEFINE field == fields[i]
  <2> HIDE DEF field
  <2>1. Leads(part, part.offset, part.type)
    BY DEF IsPart
  <2>2. Leads([part EXCEPT !.offset = @ + field.offset, !.type = field.type],
              part.offset + field.offset, field.type)
    BY <2>1, PartMoved
  <2>3. QED
    BY <1>10, <1>11, <2>2 DEF field
<1>13. QED
  BY <1>1, <1>5, <1>12

(* A step into an array leads to one of its items. *)
LEMMA ItemFound ==
  ASSUME NEW part, IsPart(part), part.type.form = "array",
         NEW step \in StepsInto(part.type)
  PROVE  LET base == part.type.base
         IN  /\ WellLaid(base) /\ part.type.count \in Nat
             /\ part.type.size = base.size * part.type.count
             /\ part.type.alignment = base.alignment
             /\ \E i \in 0 .. part.type.count - 1 :
                  /\ step = Item(i)
                  /\ Leads(PartAt(part, step), part.offset + i * base.size, base)
<1> DEFINE base == part.type.base
<1>1. PICK T : IsLaidSet(T) /\ ItemsLaid(part.type, T)
  BY DEF IsPart, WellLaid, IsLaidSet, LaidAmong
<1>2. /\ WellLaid(base) /\ part.type.count \in Nat
      /\ part.type.size = base.size * part.type.count
      /\ part.type.alignment = base.alignment
  BY <1>1 DEF ItemsLaid, WellLaid
<1>3. PICK i \in 0 .. part.type.count - 1 : step = Item(i)
  BY DEF StepsInto
<1>4. step.by = "index" /\ step.item = i
  BY <1>3 DEF Item
<1>5. ~ StepRefused(part.type, step) /\ part.ok
  BY <1>4 DEF StepRefused, IsPart, Leads
<1>6. PartAt(part, step) = ItemAt(part, i)
  BY <1>4, <1>5 DEF PartAt
<1>7. Leads(PartAt(part, step), part.offset + i * base.size, base)
  <2> DEFINE moved == i * base.size
  <2>1. ItemAt(part, i) = [part EXCEPT !.offset = @ + moved, !.type = base]
    BY DEF ItemAt
  <2> HIDE DEF moved, base
  <2>2. Leads(part, part.offset, part.type)
    BY DEF IsPart
  <2>3. Leads([part EXCEPT !.offset = @ + moved, !.type = base],
              part.offset + moved, base)
    BY <2>2, PartMoved
  <2>4. QED
    BY <1>6, <2>1, <2>3 DEF moved, base
<1>8. QED
  BY <1>2, <1>3, <1>7

LEMMA StepIntoPart ==
  ASSUME NEW part, IsPart(part),
         NEW step \in StepsInto(part.type)
  PROVE  IsPart(PartAt(part, step)) /\ Within(PartAt(part, step), part)
<1>1. /\ part.offset \in Nat /\ part.type.size \in Nat
      /\ part.type.alignment \in {1, 4, 8} /\ EndOfPart(part) \in Nat
  BY PartBounds
<1>2. CASE part.type.form = "struct"
  <2>1. PICK T : IsLaidSet(T) /\ FieldsLaid(part.type, T)
    BY <1>2, MemberFound
  <2>2. PICK i \in 1 .. Len(part.type.fields) :
          Leads(PartAt(part, step), part.offset + part.type.fields[i].offset,
                                      part.type.fields[i].type)
    BY <1>2, MemberFound
  <2> DEFINE field == part.type.fields[i]
             inner == PartAt(part, step)
  <2>3. /\ field.type \in T /\ field.type.alignment <= part.type.alignment
        /\ field.offset \in Nat /\ field.offset % field.type.alignment = 0
        /\ field.offset + field.type.size <= part.type.size
    BY <2>1 DEF FieldsLaid
  <2>4. Leads(inner, part.offset + field.offset, field.type)
    BY <2>2
  <2> HIDE DEF field, inner
  <2>5. inner.offset = part.offset + field.offset /\ inner.type = field.type
    BY <2>4 DEF Leads
  <2>6. WellLaid(field.type)
    BY <2>1, <2>3 DEF WellLaid
  <2>7. field.type.size \in Nat /\ field.type.alignment \in {1, 4, 8}
    BY <2>6, WellLaidType DEF IsDescriptor
  <2>8. (part.offset + field.offset) % field.type.alignment = 0
    <3> DEFINE start == part.offset
               large == part.type.alignment
               more == field.offset
               small == field.type.alignment
    <3>1. start % large = 0
      BY DEF IsPart
    <3>2. /\ start \in Nat /\ large \in {1, 4, 8} /\ small \in {1, 4, 8}
          /\ more \in Nat /\ more % small = 0 /\ small <= large
      BY <1>1, <2>3, <2>7
    <3> HIDE DEF start, large, more, small
    <3>3. (start + more) % small = 0
      BY <3>1, <3>2, AlignedSum
    <3>4. QED
      BY <3>3 DEF start, more, small
  <2>9. IsPart(inner)
    <3>1. inner.offset \in Nat
      BY <1>1, <2>3, <2>5
    <3>2. QED
      BY <2>4, <2>5, <2>6, <2>8, <3>1 DEF IsPart
  <2>10. Within(inner, part)
    BY <1>1, <2>3, <2>5, <2>7 DEF Within, EndOfPart
  <2>11. QED
    BY <2>9, <2>10 DEF inner
<1>3. CASE part.type.form = "array"
  <2> DEFINE base == part.type.base
             inner == PartAt(part, step)
             count == part.type.count
             size == base.size
             alignment == base.alignment
  <2>1. /\ WellLaid(base) /\ count \in Nat
        /\ part.type.size = size * count
        /\ part.type.alignment = alignment
    BY <1>3, ItemFound
  <2>2. PICK i \in 0 .. count - 1 :
          Leads(inner, part.offset + i * size, base)
    BY <1>3, ItemFound
  <2>3. size \in Nat /\ alignment \in {1, 4, 8} /\ size % alignment = 0
    BY <2>1, WellLaidType DEF IsDescriptor
  <2>4. part.offset % alignment = 0
    BY <2>1 DEF IsPart
  <2>5. inner.offset = part.offset + i * size /\ inner.type = base
    BY <2>2 DEF Leads
  <2>6. /\ EndOfPart(inner) = inner.offset + size
        /\ EndOfPart(part) = part.offset + size * count
    BY <2>1, <2>5 DEF EndOfPart
  <2>7. Leads(inner, inner.offset, inner.type)
    BY <2>2, <2>5
  <2>8. inner.type.alignment = alignment
    BY <2>5
  <2> HIDE DEF base, inner, count, size, alignment
  <2>9. i \in Nat /\ i < count
    BY <2>1
  <2>10. i * size \in Nat /\ (i * size) % alignment = 0
    <3>1. size * i \in Nat /\ (size * i) % alignment = 0
      BY <2>3, <2>9, MultipleOf
    <3>2. size * i = i * size
      BY <2>3, <2>9
    <3>3. QED
      BY <3>1, <3>2
  <2>11. i * size + size <= count * size
    BY <2>1, <2>3, <2>9, MultiplesInOrder
  <2>12. count * size = size * count
    BY <2>1, <2>3
  <2> DEFINE moved == i * size
             whole == size * count
  <2>13. /\ moved \in Nat /\ moved % alignment = 0 /\ moved + size <= whole
         /\ inner.offset = part.offset + moved /\ EndOfPart(part) = part.offset + whole
    BY <2>5, <2>6, <2>10, <2>11, <2>12
  <2>14. whole \in Nat
    BY <2>1, <2>3
  <2> HIDE DEF moved, whole
  <2>15. inner.offset % alignment = 0
    <3>1. (part.offset + moved) % alignment = 0
      BY <1>1, <2>3, <2>4, <2>13, AlignedSum
    <3>2. QED
      BY <2>13, <3>1
  <2>16. inner.offset \in Nat
    BY <1>1, <2>13
  <2>17. WellLaid(inner.type)
    BY <2>1, <2>5
  <2>18. IsPart(inner)
    BY <2>7, <2>8, <2>15, <2>16, <2>17 DEF IsPart
  <2>19. Within(inner, part)
    BY <1>1, <2>3, <2>6, <2>13, <2>14 DEF Within
  <2>20. QED
    BY <2>18, <2>19 DEF inner
<1>4. CASE part.type.form \notin {"struct", "array"}
  BY <1>4 DEF StepsInto
<1>5. QED
  BY <1>2, <1>3, <1>4

(* Two steps from one value lead to parts that share nothing. *)
LEMMA StepsApart ==
  ASSUME NEW part, IsPart(part),
         NEW step \in StepsInto(part.type), NEW other \in StepsInto(part.type),
         step # other
  PROVE  Apart(PartAt(part, step), PartAt(part, other))
<1>1. part.offset \in Nat
  BY PartBounds
<1>2. CASE part.type.form = "struct"
  <2> DEFINE fields == part.type.fields
  <2>1. PICK T : IsLaidSet(T) /\ FieldsLaid(part.type, T)
    BY <1>2, MemberFound
  <2>2. PICK i \in 1 .. Len(fields) :
          /\ step = Member(fields[i].name)
          /\ Leads(PartAt(part, step), part.offset + fields[i].offset,
                                         fields[i].type)
    BY <1>2, MemberFound
  <2>3. PICK j \in 1 .. Len(fields) :
          /\ other = Member(fields[j].name)
          /\ Leads(PartAt(part, other), part.offset + fields[j].offset,
                                          fields[j].type)
    BY <1>2, MemberFound
  <2>4. i # j
    BY <2>2, <2>3
  <2>5. \A k, m \in 1 .. Len(fields) :
          /\ fields[k].offset \in Nat /\ fields[k].type.size \in Nat
          /\ k < m => fields[k].offset + fields[k].type.size <= fields[m].offset
    <3>1. \A k \in 1 .. Len(fields) : fields[k].type.size \in Nat
      BY <2>1 DEF FieldsLaid, IsLaidSet, LaidAmong, IsDescriptor
    <3>2. QED
      BY <2>1, <3>1 DEF FieldsLaid
  <2> HIDE DEF fields
  <2>6. i < j \/ j < i
    BY <2>4
  <2>7. CASE i < j
    <3>1. fields[i].offset + fields[i].type.size <= fields[j].offset
      BY <2>5, <2>7
    <3>2. fields[i].offset \in Nat /\ fields[i].type.size \in Nat /\ fields[j].offset \in Nat
      BY <2>5
    <3>3. EndOfPart(PartAt(part, step)) <= PartAt(part, other).offset
      BY <1>1, <2>2, <2>3, <3>1, <3>2 DEF EndOfPart, Leads
    <3>4. QED
      BY <3>3 DEF Apart
  <2>8. CASE j < i
    <3>1. fields[j].offset + fields[j].type.size <= fields[i].offset
      BY <2>5, <2>8
    <3>2. fields[j].offset \in Nat /\ fields[j].type.size \in Nat /\ fields[i].offset \in Nat
      BY <2>5
    <3>3. EndOfPart(PartAt(part, other)) <= PartAt(part, step).offset
      BY <1>1, <2>2, <2>3, <3>1, <3>2 DEF EndOfPart, Leads
    <3>4. QED
      BY <3>3 DEF Apart
  <2>9. QED
    BY <2>6, <2>7, <2>8
<1>3. CASE part.type.form = "array"
  <2> DEFINE base == part.type.base
             size == base.size
             count == part.type.count
             one == PartAt(part, step)
             two == PartAt(part, other)
  <2>1. count \in Nat /\ WellLaid(base)
    BY <1>3, ItemFound
  <2>2. PICK i \in 0 .. count - 1 :
          step = Item(i) /\ Leads(one, part.offset + i * size, base)
    BY <1>3, ItemFound
  <2>3. PICK j \in 0 .. count - 1 :
          other = Item(j) /\ Leads(two, part.offset + j * size, base)
    BY <1>3, ItemFound
  <2>4. i # j
    BY <2>2, <2>3
  <2>5. size \in Nat
    BY <2>1, WellLaidType DEF IsDescriptor
  <2>6. /\ one.offset = part.offset + i * size /\ EndOfPart(one) = one.offset + size
        /\ two.offset = part.offset + j * size /\ EndOfPart(two) = two.offset + size
    BY <2>2, <2>3 DEF Leads, EndOfPart
  <2> HIDE DEF size, count, one, two
  <2>7. i \in Nat /\ j \in Nat /\ (i < j \/ j < i)
    BY <2>1, <2>4
  <2>8. i < j => i * size + size <= j * size
    BY <2>5, <2>7, MultiplesInOrder
  <2>9. j < i => j * size + size <= i * size
    BY <2>5, <2>7, MultiplesInOrder
  <2> DEFINE a == i * size
             b == j * size
  <2>10. a \in Nat /\ b \in Nat
    BY <2>5, <2>7
  <2>11. /\ one.offset = part.offset + a /\ two.offset = part.offset + b
         /\ i < j => a + size <= b
         /\ j < i => b + size <= a
    BY <2>6, <2>8, <2>9
  <2> HIDE DEF a, b
  <2>12. EndOfPart(one) <= two.offset \/ EndOfPart(two) <= one.offset
    BY <1>1, <2>5, <2>6, <2>7, <2>10, <2>11
  <2>13. QED
    BY <2>12 DEF Apart, one, two
<1>4. CASE part.type.form \notin {"struct", "array"}
  BY <1>4 DEF StepsInto
<1>5. QED
  BY <1>2, <1>3, <1>4

LEMMA WithinIsApart ==
  ASSUME NEW one, NEW other, NEW first, NEW second,
         IsPart(one), IsPart(other), IsPart(first), IsPart(second),
         Within(one, first), Within(other, second), Apart(first, second)
  PROVE  Apart(one, other)
<1>1. /\ one.offset \in Nat /\ EndOfPart(one) \in Nat
      /\ other.offset \in Nat /\ EndOfPart(other) \in Nat
      /\ first.offset \in Nat /\ EndOfPart(first) \in Nat
      /\ second.offset \in Nat /\ EndOfPart(second) \in Nat
  BY PartBounds
<1>2. QED
  BY <1>1 DEF Within, Apart

LEMMA WithinFurther ==
  ASSUME NEW part, NEW middle, NEW outer, IsPart(part), IsPart(middle), IsPart(outer),
         Within(part, middle), Within(middle, outer)
  PROVE  Within(part, outer)
<1>1. /\ part.offset \in Nat /\ EndOfPart(part) \in Nat
      /\ middle.offset \in Nat /\ EndOfPart(middle) \in Nat
      /\ outer.offset \in Nat /\ EndOfPart(outer) \in Nat
  BY PartBounds
<1>2. QED
  BY <1>1 DEF Within

-----------------------------------------------------------------------------
(* The ways into a value, however deep, lead to parts of it, each for      *)
(* itself.                                                                 *)

WaysSound(ways, outer) ==
  /\ \A way \in ways : IsPart(way.part) /\ Within(way.part, outer)
  /\ \A one, other \in ways : one = other \/ Apart(one.part, other.part)

LEMMA WaysByStep ==
  ASSUME NEW place, NEW segment
  PROVE  LET ways == WaysInto(place, segment)
         IN  /\ ways[0] = { [path |-> << place.name >>,
                             part |-> PartOf(segment, place.offset, place.type)] }
             /\ \A depth \in 1 .. MaxDepth :
                  ways[depth] = UNION { Further(way) : way \in ways[depth - 1] }
<1> DEFINE start == { [path |-> << place.name >>,
                       part |-> PartOf(segment, place.offset, place.type)] }
           More(ways) == UNION { Further(way) : way \in ways }
           Is(f, m) == f = [depth \in 0 .. m |->
                              IF depth = 0 THEN start ELSE More(f[depth - 1])]
           T == { m \in 0 .. MaxDepth : \E f : Is(f, m) }
<1>0. MaxDepth \in Nat
  BY DEF MaxDepth
<1> HIDE DEF start, More
<1>1. \E f : Is(f, 0)
  <2>1. Is([i \in 0 .. 0 |-> start], 0)
    OBVIOUS
  <2>2. QED
    BY <2>1, Zenon
<1>2. ASSUME NEW m \in 1 .. MaxDepth, NEW f, Is(f, m - 1)
      PROVE  \E g : Is(g, m)
  <2> DEFINE g == [i \in 0 .. m |-> IF i = m THEN More(f[m - 1]) ELSE f[i]]
  <2>0. m \in Nat /\ m >= 1
    BY <1>0
  <2>1. \A i \in 0 .. m - 1 : g[i] = f[i]
    BY <2>0
  <2>2. \A i \in 0 .. m - 1 : f[i] = IF i = 0 THEN start ELSE More(f[i - 1])
    BY <1>2
  <2>3. \A i \in 0 .. m : g[i] = IF i = 0 THEN start ELSE More(g[i - 1])
    BY <2>0, <2>1, <2>2
  <2>4. g = [i \in 0 .. m |-> IF i = 0 THEN start ELSE More(g[i - 1])]
    BY <2>3
  <2> HIDE DEF g
  <2>5. QED
    BY <2>4, Zenon
<1> HIDE DEF Is
<1>3. 0 \in T /\ \A m \in 1 .. MaxDepth : m - 1 \in T => m \in T
  BY <1>0, <1>1, <1>2
<1>4. MaxDepth \in T
  <2> HIDE DEF T
  <2>1. 0 .. MaxDepth \subseteq T
    BY <1>0, <1>3, CountingUp
  <2>2. QED
    BY <1>0, <2>1
<1>5. Is(WaysInto(place, segment), MaxDepth)
  <2>1. \E f : Is(f, MaxDepth)
    BY <1>4
  <2>2. WaysInto(place, segment) = CHOOSE f : Is(f, MaxDepth)
    BY Zenon DEF WaysInto, Is, More, start
  <2>3. QED
    BY <2>1, <2>2, Zenon
<1> DEFINE ways == WaysInto(place, segment)
<1>6. \A depth \in 0 .. MaxDepth :
        ways[depth] = IF depth = 0 THEN start ELSE More(ways[depth - 1])
  BY <1>5 DEF Is
<1> HIDE DEF ways
<1>7. ways[0] = start
  BY <1>0, <1>6
<1>8. \A depth \in 1 .. MaxDepth : ways[depth] = More(ways[depth - 1])
  BY <1>0, <1>6
<1>9. QED
  BY <1>7, <1>8, Zenon DEF More, start, ways

LEMMA FurtherWay ==
  ASSUME NEW way, IsPart(way.part), NEW next \in Further(way)
  PROVE  /\ IsPart(next.part) /\ Within(next.part, way.part)
         /\ \A other \in Further(way) : next = other \/ Apart(next.part, other.part)
<1> DEFINE steps == StepsInto(way.part.type)
           To(step) == [path |-> Append(way.path, step), part |-> PartAt(way.part, step)]
<1>1. CASE steps = {}
  <2>1. Further(way) = {way}
    BY <1>1 DEF Further
  <2>2. Within(way.part, way.part)
    <3>1. way.part.offset \in Nat /\ EndOfPart(way.part) \in Nat
      BY PartBounds
    <3>2. QED
      BY <3>1 DEF Within
  <2>3. QED
    BY <2>1, <2>2
<1>2. CASE steps # {}
  <2>1. Further(way) = { To(step) : step \in steps }
    BY <1>2 DEF Further
  <2>2. \A step \in steps : To(step).part = PartAt(way.part, step)
    OBVIOUS
  <2> HIDE DEF To
  <2>3. PICK step \in steps : next = To(step)
    BY <2>1
  <2>4. IsPart(next.part) /\ Within(next.part, way.part)
    BY <2>2, <2>3, StepIntoPart
  <2>5. ASSUME NEW other \in Further(way), next # other
        PROVE  Apart(next.part, other.part)
    <3>1. PICK second \in steps : other = To(second)
      BY <2>1
    <3>2. step # second
      BY <2>3, <2>5, <3>1
    <3>3. Apart(PartAt(way.part, step), PartAt(way.part, second))
      BY <3>2, StepsApart
    <3>4. QED
      BY <2>2, <2>3, <3>1, <3>3
  <2>6. QED
    BY <2>4, <2>5
<1>3. QED
  BY <1>1, <1>2

LEMMA FurtherSound ==
  ASSUME NEW outer, IsPart(outer), NEW ways, WaysSound(ways, outer)
  PROVE  WaysSound(UNION { Further(way) : way \in ways }, outer)
<1> DEFINE more == UNION { Further(way) : way \in ways }
<1>1. ASSUME NEW next \in more
      PROVE  IsPart(next.part) /\ Within(next.part, outer)
  <2>1. PICK way \in ways : next \in Further(way)
    OBVIOUS
  <2>2. IsPart(way.part) /\ Within(way.part, outer)
    BY <2>1 DEF WaysSound
  <2>3. IsPart(next.part) /\ Within(next.part, way.part)
    BY <2>1, <2>2, FurtherWay
  <2>4. QED
    BY <2>2, <2>3, WithinFurther
<1>2. ASSUME NEW one \in more, NEW other \in more, one # other
      PROVE  Apart(one.part, other.part)
  <2>1. PICK first \in ways : one \in Further(first)
    OBVIOUS
  <2>2. PICK second \in ways : other \in Further(second)
    OBVIOUS
  <2>3. IsPart(first.part) /\ IsPart(second.part)
    BY DEF WaysSound
  <2>4. CASE first = second
    BY <1>2, <2>1, <2>2, <2>3, <2>4, FurtherWay
  <2>5. CASE first # second
    <3>1. Apart(first.part, second.part)
      BY <2>5 DEF WaysSound
    <3>2. /\ IsPart(one.part) /\ Within(one.part, first.part)
          /\ IsPart(other.part) /\ Within(other.part, second.part)
      BY <2>1, <2>2, <2>3, FurtherWay
    <3>3. QED
      BY <2>3, <3>1, <3>2, WithinIsApart
  <2>6. QED
    BY <2>4, <2>5
<1> HIDE DEF more
<1>3. WaysSound(more, outer)
  BY <1>1, <1>2 DEF WaysSound
<1>4. QED
  BY <1>3 DEF more

LEMMA ScalarsSound ==
  ASSUME NEW place, NEW segment, IsPart(PartOf(segment, place.offset, place.type))
  PROVE  WaysSound(ScalarsOf(place, segment),
                   PartOf(segment, place.offset, place.type))
<1> DEFINE outer == PartOf(segment, place.offset, place.type)
           ways == WaysInto(place, segment)
           first == [path |-> << place.name >>, part |-> outer]
           T == { depth \in 0 .. MaxDepth : WaysSound(ways[depth], outer) }
<1>0. MaxDepth \in Nat
  BY DEF MaxDepth
<1>1. /\ ways[0] = {first}
      /\ \A depth \in 1 .. MaxDepth :
           ways[depth] = UNION { Further(way) : way \in ways[depth - 1] }
  BY WaysByStep
<1>2. first.part = outer
  OBVIOUS
<1> HIDE DEF ways, first
<1>3. IsPart(outer)
  OBVIOUS
<1> HIDE DEF outer
<1>4. 0 \in T
  <2>1. outer.offset \in Nat /\ EndOfPart(outer) \in Nat
    BY <1>3, PartBounds
  <2>2. Within(outer, outer)
    BY <2>1 DEF Within
  <2>3. WaysSound(ways[0], outer)
    BY <1>1, <1>2, <1>3, <2>2 DEF WaysSound
  <2>4. QED
    BY <1>0, <2>3
<1>5. ASSUME NEW depth \in 1 .. MaxDepth, depth - 1 \in T
      PROVE  depth \in T
  <2>1. WaysSound(ways[depth - 1], outer)
    BY <1>5
  <2>2. WaysSound(ways[depth], outer)
    BY <1>1, <1>3, <2>1, FurtherSound
  <2>3. depth \in 0 .. MaxDepth
    BY <1>0
  <2>4. QED
    BY <2>2, <2>3
<1> HIDE DEF T
<1>6. 0 .. MaxDepth \subseteq T
  BY <1>0, <1>4, <1>5, CountingUp
<1>7. MaxDepth \in T
  BY <1>0, <1>6
<1>8. QED
  BY <1>7 DEF T, ways, outer, ScalarsOf

-----------------------------------------------------------------------------
(* The globals of a segment lie one after another, as Laid says, and the   *)
(* segment, with its image, ends where they end; literals come into the    *)
(* const image only after all globals have their places.                   *)

TypesOf(list) == [i \in DOMAIN list |-> list[i].type]
EndOfList(list) == Laid(TypesOf(list)).size
HasRoom(list) == EndOfList(list) <= MaxOffset

OffsetsLaid(list) ==
  \A i \in 1 .. Len(list) : list[i].offset = Laid(TypesOf(list)).offsets[i]

TypesLaid(list) ==
  IsList(list) /\ \A i \in 1 .. Len(list) : WellLaid(list[i].type)

EndsThere(segment, end) ==
  /\ segment # "const" => sizes[segment] = end
  /\ segment = "data" => Len(images.data) = end
  /\ segment = "const" =>
       /\ end <= Len(images.const)
       /\ stage \in {"structs", "register"} => Len(images.const) = end

SegmentLaid(segment) ==
  /\ TypesLaid(places[segment])
  /\ HasRoom(places[segment]) =>
       OffsetsLaid(places[segment]) /\ EndsThere(segment, EndOfList(places[segment]))

GlobalsInv ==
  /\ \A name \in DOMAIN types : WellLaid(types[name])
  /\ DOMAIN places = Segments /\ DOMAIN sizes = Segments \ {"const"}
  /\ \A segment \in Segments : SegmentLaid(segment)
  /\ HasRoom(places["extern"])

LEMMA TypesOfList ==
  ASSUME NEW list, TypesLaid(list)
  PROVE  /\ Len(list) \in Nat /\ Len(TypesOf(list)) = Len(list)
         /\ \A i \in 1 .. Len(list) :
              TypesOf(list)[i] = list[i].type /\ IsDescriptor(TypesOf(list)[i])
         /\ EndOfList(list) \in Nat
<1>1. Len(list) \in Nat /\ DOMAIN list = 1 .. Len(list)
  BY Lists DEF TypesLaid
<1>2. /\ Len(TypesOf(list)) = Len(list)
      /\ \A i \in 1 .. Len(list) : TypesOf(list)[i] = list[i].type
  BY <1>1 DEF TypesOf
<1>3. \A i \in 1 .. Len(list) : IsDescriptor(list[i].type)
  BY WellLaidType DEF TypesLaid
<1>4. \A i \in 1 .. Len(list) : IsDescriptor(TypesOf(list)[i])
  BY <1>2, <1>3
<1>5. EndOfList(list) \in Nat
  BY <1>1, <1>2, <1>4, LaidInOrder DEF EndOfList
<1>6. QED
  BY <1>1, <1>2, <1>4, <1>5

LEMMA MaxOffsetIsNat == MaxOffset \in Nat
<1>1. ByteBase \in Nat /\ ByteBase > 0
  BY LayoutAssumption
<1>2. AddressSpace \in Nat /\ AddressSpace > 0
  BY <1>1 DEF AddressSpace
<1> HIDE DEF AddressSpace
<1>3. AddressSpace * ByteBase \in Nat /\ AddressSpace * ByteBase > 0
  BY <1>1, <1>2
<1>4. QED
  BY <1>3 DEF MaxOffset

LEMMA SmallUint32 ==
  ASSUME NEW n \in Nat, n <= MaxOffset
  PROVE  Uint32(n) = n
<1> DEFINE m == MaxOffset + 1
<1>1. m \in Nat /\ n < m
  BY MaxOffsetIsNat
<1>2. Uint32(n) = n % m
  BY DEF Uint32
<1> HIDE DEF m
<1>3. n % m = n
  BY <1>1
<1>4. QED
  BY <1>2, <1>3

LEMMA GrownLength ==
  ASSUME NEW image, IsList(image), NEW size \in Nat, size <= MaxOffset,
         Len(image) <= size
  PROVE  Len(Grown(image, size)) = size
<1> DEFINE old == Len(image)
           more == [i \in 1 .. size - old |-> 0]
<1>1. old \in Nat
  BY Lists
<1>2. Uint32(old) = old
  BY <1>1, SmallUint32, MaxOffsetIsNat
<1>3. Grown(image, size) = IF size <= old THEN image ELSE image \o more
  BY <1>2 DEF Grown
<1>4. CASE size <= old
  BY <1>1, <1>3, <1>4
<1>5. CASE ~ (size <= old)
  <2>1. size - old \in Nat
    BY <1>1, <1>5
  <2>2. IsList(more) /\ Len(more) = size - old
    BY <2>1, ZeroList
  <2> HIDE DEF more
  <2>3. Len(image \o more) = Len(image) + Len(more)
    BY <2>2, ConcatLists
  <2>4. QED
    BY <1>1, <1>3, <1>5, <2>2, <2>3
<1>6. QED
  BY <1>4, <1>5

(* Where 32 bits are enough, the next place is the one that Laid gives. *)
LEMMA NextPlace ==
  ASSUME NEW size \in Nat, NEW type, WellLaid(type),
         AlignUp(size, type.alignment) + type.size <= MaxOffset
  PROVE  LET start == AlignUp(size, type.alignment)
         IN  /\ AlignUpWrapping(size, type.alignment) = start
             /\ Uint32(start + type.size) = start + type.size
             /\ size <= start + type.size
<1> DEFINE alignment == type.alignment
           start == AlignUp(size, alignment)
           bytes == type.size
<1>1. /\ bytes \in Nat /\ alignment \in {1, 4, 8} /\ bytes % alignment = 0
      /\ bytes > 0 \/ alignment = 1
  BY WellLaidType DEF IsDescriptor
<1>2. start \in Nat /\ size <= start
  BY <1>1, Aligned
<1>3. start + bytes <= MaxOffset /\ MaxOffset \in Nat
  BY MaxOffsetIsNat
<1> HIDE DEF start, alignment, bytes
<1>4. alignment <= bytes \/ alignment = 1
  BY <1>1
<1>5. size + alignment - 1 \in Nat /\ size + alignment - 1 <= MaxOffset
  BY <1>1, <1>2, <1>3, <1>4
<1>6. Uint32(size + alignment - 1) = size + alignment - 1
  BY <1>5, SmallUint32
<1>7. AlignUpWrapping(size, alignment) = start
  BY <1>6 DEF AlignUpWrapping, start, AlignUp
<1>8. Uint32(start + bytes) = start + bytes
  BY <1>1, <1>2, <1>3, SmallUint32
<1>9. size <= start + bytes
  BY <1>1, <1>2
<1>10. QED
  BY <1>7, <1>8, <1>9 DEF start, alignment, bytes

LEMMA ListLonger ==
  ASSUME NEW list, TypesLaid(list), NEW place, WellLaid(place.type)
  PROVE  LET longer == Append(list, place)
             start == AlignUp(EndOfList(list), place.type.alignment)
         IN  /\ TypesLaid(longer)
             /\ EndOfList(longer) = start + place.type.size
             /\ EndOfList(list) <= EndOfList(longer)
             /\ OffsetsLaid(list) /\ place.offset = start => OffsetsLaid(longer)
<1> DEFINE longer == Append(list, place)
           start == AlignUp(EndOfList(list), place.type.alignment)
           n == Len(list)
<1>1. /\ IsList(longer) /\ Len(longer) = n + 1
      /\ \A i \in 1 .. n : longer[i] = list[i]
      /\ longer[n + 1] = place
  BY AppendToList DEF TypesLaid
<1>2. /\ n \in Nat /\ Len(TypesOf(list)) = n /\ EndOfList(list) \in Nat
      /\ \A i \in 1 .. n : TypesOf(list)[i] = list[i].type
  BY TypesOfList
<1> HIDE DEF longer
<1>3. TypesLaid(longer)
  <2>1. ASSUME NEW i \in 1 .. n + 1 PROVE WellLaid(longer[i].type)
    <3>1. CASE i \in 1 .. n
      BY <1>1, <3>1 DEF TypesLaid
    <3>2. CASE i = n + 1
      BY <1>1, <3>2
    <3>3. QED
      BY <1>2, <3>1, <3>2
  <2>2. QED
    BY <1>1, <2>1 DEF TypesLaid
<1>4. /\ Len(TypesOf(longer)) = n + 1
      /\ \A i \in 1 .. n + 1 : TypesOf(longer)[i] = longer[i].type
      /\ EndOfList(longer) \in Nat
  BY <1>1, <1>3, TypesOfList
<1>5. /\ \A i \in 1 .. n : TypesOf(longer)[i] = TypesOf(list)[i]
      /\ TypesOf(longer)[n + 1] = place.type
  BY <1>1, <1>2, <1>4
<1>6. /\ \A i \in 1 .. n :
           Laid(TypesOf(longer)).offsets[i] = Laid(TypesOf(list)).offsets[i]
      /\ Laid(TypesOf(longer)).offsets[n + 1] = start
      /\ EndOfList(longer) = start + place.type.size
  <2> DEFINE before == TypesOf(list)
             after == TypesOf(longer)
  <2>1. /\ Len(before) \in Nat /\ Len(after) = Len(before) + 1 /\ Len(before) = n
        /\ \A i \in 1 .. Len(before) : after[i] = before[i]
        /\ after[Len(before) + 1] = place.type
    BY <1>2, <1>4, <1>5
  <2>2. start = AlignUp(Laid(before).size, place.type.alignment)
        /\ EndOfList(longer) = Laid(after).size
    BY DEF EndOfList
  <2> HIDE DEF before, after, start
  <2>3. /\ \A i \in 1 .. n : Laid(after).offsets[i] = Laid(before).offsets[i]
        /\ Laid(after).offsets[n + 1] = start
        /\ Laid(after).size = start + place.type.size
    BY <2>1, <2>2, LaidLonger
  <2>4. QED
    BY <2>2, <2>3 DEF before, after
<1>7. start \in Nat /\ EndOfList(list) <= start /\ place.type.size \in Nat
  <2>1. place.type.alignment \in {1, 4, 8} /\ place.type.size \in Nat
    BY WellLaidType DEF IsDescriptor
  <2>2. QED
    BY <1>2, <2>1, Aligned
<1> HIDE DEF start
<1>8. EndOfList(list) <= EndOfList(longer)
  BY <1>2, <1>6, <1>7
<1>9. ASSUME OffsetsLaid(list), place.offset = start
      PROVE  OffsetsLaid(longer)
  <2>1. ASSUME NEW i \in 1 .. n + 1
        PROVE  longer[i].offset = Laid(TypesOf(longer)).offsets[i]
    <3>1. CASE i \in 1 .. n
      BY <1>1, <1>6, <1>9, <3>1 DEF OffsetsLaid
    <3>2. CASE i = n + 1
      BY <1>1, <1>6, <1>9, <3>2
    <3>3. QED
      BY <1>2, <3>1, <3>2
  <2>2. QED
    BY <1>1, <2>1 DEF OffsetsLaid
<1>10. QED
  BY <1>3, <1>6, <1>8, <1>9 DEF longer, start

(* A global goes to the end of its segment. *)
LEMMA PlacingKeepsGlobals ==
  ASSUME GlobalsInv, DataInv, stage = "register", stage' = "register",
         NEW d, WellLaid(TypeOf(d.type)), PlaceVariable(d)
  PROVE  GlobalsInv'
<1>1. PICK segment : segment = SegmentOf(d)
  OBVIOUS
<1>2. PICK type : type = TypeOf(d.type)
  OBVIOUS
<1>3. PICK offset : offset = AlignUpWrapping(EndOf(segment), type.alignment)
  OBVIOUS
<1>4. PICK end : end = Uint32(offset + type.size)
  OBVIOUS
<1>5. PICK place : place = [name |-> d.name, type |-> type, offset |-> offset]
  OBVIOUS
<1>6. segment \in Segments
  BY <1>1 DEF SegmentOf, Segments
<1>7. /\ places' = [places EXCEPT ![segment] = Append(@, place)]
      /\ sizes' = IF segment = "const" THEN sizes ELSE [sizes EXCEPT ![segment] = end]
      /\ images' = IF segment \in DOMAIN images
                   THEN [images EXCEPT ![segment] = Grown(@, end)] ELSE images
      /\ types' = types
      /\ ~ PlaceRefused(d)
  BY <1>1, <1>2, <1>3, <1>4, <1>5 DEF PlaceVariable
<1>8. /\ DOMAIN places = Segments /\ DOMAIN sizes = Segments \ {"const"}
      /\ DOMAIN images = {"data", "const"}
      /\ IsList(images.data) /\ IsList(images.const)
  BY DEF GlobalsInv, DataInv
<1>9. PICK list : list = places[segment]
  OBVIOUS
<1>10. PICK longer : longer = Append(list, place)
  OBVIOUS
<1>11. /\ DOMAIN places' = Segments /\ DOMAIN sizes' = Segments \ {"const"}
       /\ places'[segment] = longer
       /\ \A s \in Segments \ {segment} : places'[s] = places[s]
  BY <1>6, <1>7, <1>8, <1>9, <1>10
<1>12. ASSUME NEW s \in Segments, s # segment
       PROVE  SegmentLaid(s)'
  <2>1. places'[s] = places[s]
    BY <1>11, <1>12
  <2>2. s # "const" => sizes'[s] = sizes[s]
    BY <1>7, <1>8, <1>12
  <2>3. s = "data" => images'.data = images.data
    BY <1>7, <1>8, <1>12
  <2>4. s = "const" => images'.const = images.const
    BY <1>7, <1>8, <1>12
  <2>5. SegmentLaid(s)
    BY DEF GlobalsInv
  <2>6. \A there : EndsThere(s, there) => EndsThere(s, there)'
    BY <2>2, <2>3, <2>4 DEF EndsThere
  <2>7. QED
    BY <2>1, <2>5, <2>6 DEF SegmentLaid
<1>13. TypesLaid(list) /\ WellLaid(type) /\ place.type = type /\ place.offset = offset
  BY <1>2, <1>5, <1>6, <1>9 DEF GlobalsInv, SegmentLaid
<1>14. PICK last : last = EndOfList(list)
  OBVIOUS
<1>15. PICK start : start = AlignUp(last, type.alignment)
  OBVIOUS
<1>16. /\ TypesLaid(longer) /\ last \in Nat
       /\ EndOfList(longer) = start + type.size
       /\ OffsetsLaid(list) /\ offset = start => OffsetsLaid(longer)
  BY <1>10, <1>13, <1>14, <1>15, ListLonger, TypesOfList
<1>17. type.size \in Nat /\ type.alignment \in {1, 4, 8} /\ start \in Nat /\ last <= start
  <2>1. type.size \in Nat /\ type.alignment \in {1, 4, 8}
    BY <1>13, WellLaidType DEF IsDescriptor
  <2>2. QED
    BY <1>15, <1>16, <2>1, Aligned
<1>18. segment = "extern" => start + type.size <= MaxOffset
  <2> SUFFICES ASSUME segment = "extern" PROVE start + type.size <= MaxOffset
    OBVIOUS
  <2>1. HasRoom(list) /\ SegmentLaid("extern")
    BY <1>9 DEF GlobalsInv, Segments
  <2>2. sizes["extern"] = last
    BY <1>9, <1>14, <2>1 DEF SegmentLaid, EndsThere
  <2>3. EndOf("extern") = last
    BY <2>2 DEF EndOf
  <2>4. ~ (start + type.size > MaxOffset)
    BY <1>1, <1>2, <1>7, <1>15, <2>3 DEF PlaceRefused
  <2>5. QED
    BY <1>17, <2>4, MaxOffsetIsNat
<1>19. ASSUME start + type.size <= MaxOffset
       PROVE  /\ OffsetsLaid(longer) /\ EndsThere(segment, start + type.size)'
  <2>1. /\ AlignUpWrapping(last, type.alignment) = start
        /\ Uint32(start + type.size) = start + type.size
        /\ last <= start + type.size
    BY <1>13, <1>15, <1>16, <1>19, NextPlace
  <2>2. last <= MaxOffset
    BY <1>16, <1>17, <1>19, <2>1, MaxOffsetIsNat
  <2>3. OffsetsLaid(list) /\ EndsThere(segment, last)
    BY <1>6, <1>9, <1>14, <2>2 DEF GlobalsInv, SegmentLaid, HasRoom
  <2>4. EndOf(segment) = last
    <3>1. CASE segment = "const"
      <4>1. Len(images.const) = last
        BY <2>3, <3>1 DEF EndsThere
      <4>2. QED
        BY <1>16, <2>2, <3>1, <4>1, SmallUint32 DEF EndOf
    <3>2. CASE segment # "const"
      BY <2>3, <3>2 DEF EndsThere, EndOf
    <3>3. QED
      BY <3>1, <3>2
  <2>5. offset = start /\ end = start + type.size
    BY <1>3, <1>4, <2>1, <2>4
  <2>6. end \in Nat /\ end <= MaxOffset /\ last <= end
    BY <1>17, <1>19, <2>1, <2>5
  <2>7. segment # "const" => sizes'[segment] = end
    BY <1>6, <1>7, <1>8
  <2>8. segment = "data" => Len(images'.data) = end
    <3> SUFFICES ASSUME segment = "data" PROVE Len(images'.data) = end
      OBVIOUS
    <3>1. images'.data = Grown(images.data, end)
      BY <1>7, <1>8
    <3>2. Len(images.data) = last
      BY <2>3 DEF EndsThere
    <3>3. QED
      BY <1>8, <2>6, <3>1, <3>2, GrownLength
  <2>9. segment = "const" => Len(images'.const) = end
    <3> SUFFICES ASSUME segment = "const" PROVE Len(images'.const) = end
      OBVIOUS
    <3>1. images'.const = Grown(images.const, end)
      BY <1>7, <1>8
    <3>2. Len(images.const) = last
      BY <2>3 DEF EndsThere
    <3>3. QED
      BY <1>8, <2>6, <3>1, <3>2, GrownLength
  <2>10. EndsThere(segment, end)'
    BY <2>6, <2>7, <2>8, <2>9 DEF EndsThere
  <2>11. QED
    BY <1>16, <2>3, <2>5, <2>10
<1>20. SegmentLaid(segment)'
  <2>1. HasRoom(longer) => start + type.size <= MaxOffset
    BY <1>16 DEF HasRoom
  <2>2. QED
    BY <1>11, <1>16, <1>19, <2>1 DEF SegmentLaid
<1>21. HasRoom(places'["extern"])
  <2>1. CASE segment = "extern"
    BY <1>11, <1>16, <1>18, <2>1 DEF HasRoom
  <2>2. CASE segment # "extern"
    <3>1. places'["extern"] = places["extern"]
      BY <1>11, <2>2 DEF Segments
    <3>2. QED
      BY <3>1 DEF GlobalsInv
  <2>3. QED
    BY <2>1, <2>2
<1>22. \A name \in DOMAIN types' : WellLaid(types'[name])
  BY <1>7 DEF GlobalsInv
<1>23. \A s \in Segments : SegmentLaid(s)'
  BY <1>12, <1>20
<1>24. QED
  BY <1>11, <1>21, <1>22, <1>23 DEF GlobalsInv

(* Nothing moves when an image keeps its length, or a literal comes in     *)
(* after the last global.                                                  *)
LEMMA ImagesKeepGlobals ==
  ASSUME GlobalsInv, UNCHANGED << places, sizes >>,
         \A name \in DOMAIN types' : WellLaid(types'[name]),
         Len(images'.data) = Len(images.data),
         Len(images.const) \in Nat, Len(images'.const) \in Nat,
         Len(images.const) <= Len(images'.const),
         stage' \in {"structs", "register"} =>
           /\ stage \in {"structs", "register"}
           /\ Len(images'.const) = Len(images.const)
  PROVE  GlobalsInv'
<1>1. ASSUME NEW segment \in Segments PROVE SegmentLaid(segment)'
  <2>1. SegmentLaid(segment)
    BY DEF GlobalsInv
  <2>2. ASSUME NEW end \in Nat, EndsThere(segment, end)
        PROVE  EndsThere(segment, end)'
    BY <2>2 DEF EndsThere
  <2>3. TypesLaid(places[segment]) /\ EndOfList(places[segment]) \in Nat
    BY <2>1, TypesOfList DEF SegmentLaid
  <2>4. QED
    BY <2>1, <2>2, <2>3 DEF SegmentLaid
<1>2. QED
  BY <1>1 DEF GlobalsInv

LEMMA WrittenLength ==
  ASSUME NEW image, IsList(image), NEW offset, NEW bytes
  PROVE  Len(WrittenTo(image, offset, bytes)) = Len(image)
<1> DEFINE filled == WrittenTo(image, offset, bytes)
<1>1. DOMAIN filled = DOMAIN image
  BY DEF WrittenTo
<1>2. IsList(filled)
  BY WrittenList
<1> HIDE DEF filled
<1>3. /\ Len(filled) \in Nat /\ DOMAIN filled = 1 .. Len(filled)
      /\ Len(image) \in Nat /\ DOMAIN image = 1 .. Len(image)
  BY <1>2, Lists
<1>4. Len(filled) = Len(image)
  <2> DEFINE m == Len(filled)
             n == Len(image)
  <2>1. m \in Nat /\ n \in Nat /\ 1 .. m = 1 .. n
    BY <1>1, <1>3
  <2> HIDE DEF m, n
  <2>2. (m > 0 => m \in 1 .. m) /\ (n > 0 => n \in 1 .. n)
    BY <2>1
  <2>3. (m > 0 => m <= n) /\ (n > 0 => n <= m)
    BY <2>1, <2>2
  <2>4. m = n
    BY <2>1, <2>3
  <2>5. QED
    BY <2>4 DEF m, n
<1>5. QED
  BY <1>4 DEF filled

LEMMA InternedLength ==
  ASSUME NEW pool, IsList(pool.image), NEW text, IsList(text)
  PROVE  Len(pool.image) <= Len(Interned(pool, text).image)
<1> DEFINE image == pool.image
           zero == << 0 >>
<1>1. IsList(zero)
  BY SingleList
<1>2. text \notin DOMAIN pool.at =>
        Interned(pool, text).image = image \o text \o zero
  BY DEF Interned
<1>3. text \in DOMAIN pool.at => Interned(pool, text) = pool
  BY DEF Interned
<1> HIDE DEF zero
<1>4. IsList(image)
  OBVIOUS
<1> HIDE DEF image
<1>5. IsList(image \o text) /\ Len(image \o text) = Len(image) + Len(text)
  BY <1>4, ConcatLists
<1> DEFINE both == image \o text
<1>6. both \o zero = image \o text \o zero
  OBVIOUS
<1>7. IsList(both) /\ Len(both) = Len(image) + Len(text)
  BY <1>5
<1> HIDE DEF both
<1>8. Len(both \o zero) = Len(both) + Len(zero)
  BY <1>1, <1>7, ConcatLists
<1>9. Len(image) \in Nat /\ Len(text) \in Nat /\ Len(zero) \in Nat
  BY <1>1, <1>4, Lists
<1>10. Len(image) <= Len(both \o zero)
  BY <1>7, <1>8, <1>9
<1>11. CASE text \in DOMAIN pool.at
  BY <1>3, <1>9, <1>11 DEF image
<1>12. CASE text \notin DOMAIN pool.at
  BY <1>2, <1>6, <1>10, <1>12 DEF image
<1>13. QED
  BY <1>11, <1>12

LEMMA PoolLength ==
  ASSUME IsList(images.const), NEW body, IsList(body),
         \A cell \in Range(body) : cell.op = "text" => IsList(cell.text)
  PROVE  Len(images.const) <= Len(PoolWith(body).image)
<1> DEFINE pools == Pools(body)
           length == Len(images.const)
           T == { i \in 0 .. Len(body) : IsList(pools[i].image)
                                         /\ length <= Len(pools[i].image) }
<1>1. Len(body) \in Nat /\ \A i \in 1 .. Len(body) : body[i] \in Range(body)
  BY Lists
<1>2. /\ pools[0] = Pool
      /\ \A i \in 1 .. Len(body) :
           pools[i] = IF body[i].op # "text" THEN pools[i - 1]
                      ELSE Interned(pools[i - 1], body[i].text)
  BY <1>1, PoolsByStep
<1>3. length \in Nat
  BY Lists
<1> HIDE DEF pools
<1>4. 0 \in T
  BY <1>1, <1>2, <1>3 DEF Pool
<1> HIDE DEF length
<1>5. ASSUME NEW i \in 1 .. Len(body), i - 1 \in T
      PROVE  i \in T
  <2>1. IsList(pools[i - 1].image) /\ length <= Len(pools[i - 1].image)
    BY <1>5
  <2>2. CASE body[i].op # "text"
    BY <1>2, <2>1, <2>2
  <2>3. CASE body[i].op = "text"
    <3>1. IsList(body[i].text)
      BY <1>1, <2>3
    <3>2. pools[i] = Interned(pools[i - 1], body[i].text)
      BY <1>2, <2>3
    <3>3. /\ IsList(pools[i].image)
          /\ Len(pools[i - 1].image) <= Len(pools[i].image)
      BY <2>1, <3>1, <3>2, InternedList, InternedLength
    <3>4. Len(pools[i - 1].image) \in Nat /\ Len(pools[i].image) \in Nat
      BY <2>1, <3>3, Lists
    <3>5. length <= Len(pools[i].image)
      BY <1>3, <2>1, <3>3, <3>4
    <3>6. QED
      BY <3>3, <3>5
  <2>4. QED
    BY <2>2, <2>3
<1> HIDE DEF T
<1>6. 0 .. Len(body) \subseteq T
  BY <1>1, <1>4, <1>5, CountingUp
<1>7. Len(body) \in T
  BY <1>1, <1>6
<1>8. QED
  BY <1>7 DEF T, pools, PoolWith, length

LEMMA InitializingKeepsLengths ==
  ASSUME DataInv, NEW d, Initialize(d), IsList(d.initial.text)
  PROVE  /\ Len(images'.data) = Len(images.data)
         /\ Len(images.const) <= Len(images'.const)
<1> DEFINE segment == SegmentOf(d)
           offset == PlaceOf(d.name).offset
           bytes == Bytes(BitsOf(PlaceOf(d.name).type, d.initial), PlaceOf(d.name).type.size)
           image == ImageToFill(segment, d.initial)
           filled == WrittenTo(image, offset, bytes)
           pool == PoolAfter(d.initial)
<1>1. /\ images' = [const |-> IF segment = "const" THEN filled ELSE pool.image,
                    data |-> IF segment = "data" THEN filled ELSE images.data]
      /\ segment \in {"data", "const"}
  BY DEF Initialize, InitializerAccepted
<1>2. IsList(images.const) /\ IsList(images.data)
  BY DEF DataInv
<1>3. IsList(pool.image) /\ Len(images.const) <= Len(pool.image)
  <2>1. Pool.image = images.const
    BY DEF Pool
  <2>2. Len(images.const) \in Nat
    BY <1>2, Lists
  <2>3. IsList(Interned(Pool, d.initial.text).image)
        /\ Len(Pool.image) <= Len(Interned(Pool, d.initial.text).image)
    BY <1>2, <2>1, InternedList, InternedLength
  <2>4. QED
    BY <1>2, <2>1, <2>2, <2>3 DEF PoolAfter
<1>4. image = IF segment = "const" THEN pool.image ELSE images[segment]
  BY DEF ImageToFill
<1> HIDE DEF segment, offset, bytes, pool, image
<1>5. IsList(image)
  BY <1>1, <1>2, <1>3, <1>4
<1>6. Len(filled) = Len(image)
  BY <1>5, WrittenLength
<1> HIDE DEF filled
<1>7. CASE segment = "const"
  BY <1>1, <1>3, <1>4, <1>6, <1>7
<1>8. CASE segment = "data"
  BY <1>1, <1>3, <1>4, <1>6, <1>8
<1>9. QED
  BY <1>1, <1>7, <1>8

LEMMA GlobalsStep ==
  ASSUME StageInv, LayoutInv, DataInv, DataInv', GlobalsInv, [Next]_vars
  PROVE  GlobalsInv'
<1>1. source' = source /\ Advances
  BY NextAdvances DEF StageInv
<1>2. stage' \in {"structs", "register"} => stage \in {"structs", "register"}
  BY <1>1 DEF Advances, Goes, Counts, Fails
<1>3. /\ Len(images.const) \in Nat /\ Len(images'.const) \in Nat
  BY Lists DEF DataInv
<1>4. \A name \in DOMAIN types : WellLaid(types[name])
  BY DEF GlobalsInv
<1>5. CASE UNCHANGED layoutVars
  <2>1. UNCHANGED << types, places, sizes, images >>
    BY <1>5 DEF layoutVars
  <2>2. QED
    BY <1>2, <1>3, <1>4, <2>1, ImagesKeepGlobals
<1>6. CASE ReadStruct /\ ~ UNCHANGED layoutVars
  <2> DEFINE struct == source.structs[at]
  <2>1. /\ stage = "structs" /\ at \in 1 .. Len(source.structs) /\ DeclareStruct(struct)
    BY <1>6 DEF ReadStruct, StageInv
  <2>2. struct \in Range(source.structs)
    BY <2>1, SourceLists, Lists DEF StageInv, IsSource
  <2>3. /\ IsList(struct.fields)
        /\ \A field \in Range(struct.fields) : field.type.counts \in Seq(Nat)
    BY <2>2, SourceLists DEF StageInv, IsSource
  <2>4. FieldsAccepted(struct.fields)
        /\ types' = [name \in DOMAIN types \cup {struct.name} |->
                       IF name = struct.name THEN StructOf(struct.fields)
                       ELSE types[name]]
        /\ UNCHANGED << places, sizes, images >>
    BY <2>1 DEF DeclareStruct, StructAccepted
  <2> HIDE DEF struct
  <2>5. WellLaid(StructOf(struct.fields))
    BY <1>4, <2>3, <2>4, StructWellLaid
  <2>6. ASSUME NEW name \in DOMAIN types'
        PROVE  WellLaid(types'[name])
    <3>1. name \in DOMAIN types \cup {struct.name}
      BY <2>4
    <3>2. CASE name = struct.name
      BY <2>4, <2>5, <3>1, <3>2
    <3>3. CASE name # struct.name
      <4>1. name \in DOMAIN types /\ types'[name] = types[name]
        BY <2>4, <3>1, <3>3
      <4>2. QED
        BY <1>4, <4>1
    <3>4. QED
      BY <3>2, <3>3
  <2>7. \A name \in DOMAIN types' : WellLaid(types'[name])
    BY <2>6
  <2>8. Len(images'.data) = Len(images.data) /\ Len(images'.const) = Len(images.const)
    BY <2>4
  <2>9. UNCHANGED << places, sizes >> /\ Len(images.const) <= Len(images'.const)
    BY <1>3, <2>4, <2>8
  <2>10. QED
    BY <1>2, <1>3, <2>7, <2>8, <2>9, ImagesKeepGlobals
<1>7. CASE RegisterDeclaration /\ ~ UNCHANGED layoutVars
  <2> DEFINE d == source.decls[at]
  <2>1. /\ stage = "register" /\ stage' = "register" /\ at \in 1 .. Len(source.decls)
        /\ d.kind = "variable" /\ PlaceVariable(d)
    BY <1>7 DEF RegisterDeclaration, RegisterVariable, RegisterExtern, StageInv
  <2>2. d \in Variables
    BY <2>1, SourceLists DEF StageInv, Variables, Range
  <2>3. TypeAccepted(d.type)
    BY <2>1, <2>2 DEF LayoutInv, VariableAccepted
  <2>4. d.type.counts \in Seq(Nat)
    BY <2>1, <2>2, SourceLists DEF StageInv, IsSource, Variables
  <2>5. WellLaid(TypeOf(d.type))
    BY <1>4, <2>3, <2>4, WrittenWellLaid
  <2> HIDE DEF d
  <2>6. QED
    BY <2>1, <2>5, PlacingKeepsGlobals
<1>8. CASE InitializeGlobal /\ ~ UNCHANGED layoutVars
  <2> DEFINE d == source.decls[at]
  <2>1. /\ stage = "initialize" /\ stage' = "initialize"
        /\ at \in 1 .. Len(source.decls) /\ Initialized(d) /\ Initialize(d)
    BY <1>8, SourceLists DEF InitializeGlobal, StageInv
  <2>2. d \in Range(source.decls) /\ d.kind = "variable" /\ d.initial # NoValue
    BY <2>1, SourceLists DEF StageInv, Range, Initialized
  <2>3. IsList(d.initial.text)
    BY <2>2, SourceLists DEF StageInv, IsSource
  <2> HIDE DEF d
  <2>4. /\ Len(images'.data) = Len(images.data)
        /\ Len(images.const) <= Len(images'.const)
    BY <2>1, <2>3, InitializingKeepsLengths
  <2>5. UNCHANGED << types, places, sizes >>
    BY <2>1 DEF Initialize
  <2>6. QED
    BY <1>3, <1>4, <2>1, <2>4, <2>5, ImagesKeepGlobals
<1>9. CASE CompileFunction /\ ~ UNCHANGED layoutVars
  <2> DEFINE f == source.functions[at]
  <2>1. /\ stage = "compile" /\ stage' = "compile"
        /\ at \in 1 .. Len(source.functions) /\ Intern(f.body)
    BY <1>9, SourceLists DEF CompileFunction, StageInv
  <2>2. f \in Range(source.functions)
    BY <2>1, SourceLists DEF StageInv, Range
  <2>3. /\ IsList(f.body)
        /\ \A cell \in Range(f.body) : cell.op = "text" => IsList(cell.text)
    BY <2>2, SourceLists DEF StageInv, IsSource
  <2> HIDE DEF f
  <2>4. images' = [images EXCEPT !.const = PoolWith(f.body).image]
        /\ UNCHANGED << types, places, sizes >>
    BY <2>1 DEF Intern
  <2>5. DOMAIN images = {"data", "const"} /\ IsList(images.const)
    BY DEF DataInv
  <2>6. images'.data = images.data /\ images'.const = PoolWith(f.body).image
    BY <2>4, <2>5
  <2>7. Len(images.const) <= Len(images'.const)
    BY <2>3, <2>5, <2>6, PoolLength
  <2>8. QED
    BY <1>3, <1>4, <2>1, <2>4, <2>6, <2>7, ImagesKeepGlobals
<1>10. CASE UNCHANGED vars
  BY <1>5, <1>10 DEF vars
<1>11. CASE ReadVariables \/ EndDeclarations \/ RegisterFunction \/ FindEntry
  BY <1>5, <1>11 DEF ReadVariables, EndDeclarations, RegisterFunction, FindEntry
<1>12. CASE MarkFromEntry \/ Mark \/ EndMark \/ AssembleBlock \/ EndAssembly
  BY <1>5, <1>12 DEF MarkFromEntry, Mark, EndMark, AssembleBlock, EndAssembly
<1>13. CASE LinkVariable \/ EndVariables \/ LinkExterns
  BY <1>5, <1>13 DEF LinkVariable, EndVariables, LinkExterns
<1>14. CASE LinkFunction \/ EndTables \/ PatchCall \/ EndLink
  BY <1>5, <1>14 DEF LinkFunction, EndTables, PatchCall, EndLink
<1>15. QED
  BY <1>5, <1>6, <1>7, <1>8, <1>9, <1>10, <1>11, <1>12, <1>13, <1>14 DEF Next

LEMMA GlobalsInitially == Init => GlobalsInv
<1> SUFFICES ASSUME Init PROVE GlobalsInv
  OBVIOUS
<1>1. LayoutInit
  BY DEF Init
<1>2. \A name \in DOMAIN types : WellLaid(types[name])
  <2>1. types = [name \in DOMAIN SizeOf |-> Scalar(name)]
    BY <1>1 DEF LayoutInit
  <2>2. DOMAIN types = DOMAIN SizeOf /\ \A name \in DOMAIN SizeOf : types[name] = Scalar(name)
    BY <2>1
  <2>3. QED
    BY <2>2, ScalarsWellLaid, Zenon
<1>3. /\ DOMAIN places = Segments /\ DOMAIN sizes = Segments \ {"const"}
      /\ \A segment \in Segments : places[segment] = << >>
      /\ \A segment \in Segments \ {"const"} : sizes[segment] = 0
      /\ images.data = << >> /\ images.const = << >>
  BY <1>1 DEF LayoutInit
<1>4. TypesLaid(<< >>) /\ OffsetsLaid(<< >>)
  BY EmptyList DEF TypesLaid, OffsetsLaid
<1>5. EndOfList(<< >>) = 0
  <2>1. Len(TypesOf(<< >>)) = 0
    BY <1>4, TypesOfList, EmptyList
  <2>2. Ends(TypesOf(<< >>))[0] = 0
    BY <2>1, EndsByStep
  <2>3. QED
    BY <2>1, <2>2 DEF EndOfList, Laid
<1>6. HasRoom(<< >>)
  BY <1>5, MaxOffsetIsNat DEF HasRoom
<1>7. \A segment \in Segments : EndsThere(segment, 0)
  BY <1>3, EmptyList DEF EndsThere
<1>8. \A segment \in Segments : SegmentLaid(segment)
  BY <1>3, <1>4, <1>5, <1>7 DEF SegmentLaid
<1>9. "extern" \in Segments
  BY DEF Segments
<1>10. QED
  BY <1>2, <1>3, <1>6, <1>8, <1>9 DEF GlobalsInv

LEMMA GlobalsInvariant == Spec => []GlobalsInv
<1>1. Inv /\ DataSound /\ DataSound' /\ GlobalsInv /\ [Next]_vars => GlobalsInv'
  BY GlobalsStep DEF Inv, DataSound
<1>2. QED
  BY <1>1, DataSoundInvariant, GlobalsInitially, Invariant, PTL DEF Spec

(* Globals that lie one after another, in a segment that holds them all,   *)
(* share nothing, nor do their parts.                                      *)
LEMMA GlobalsApart == GlobalsInv /\ DataInv => ScalarsApart
<1> SUFFICES ASSUME GlobalsInv, DataInv,
                    NEW segment \in Segments, Roomy(segment)
             PROVE  /\ segment = "data" => Len(images.data) = sizes.data
                    /\ \A one \in ScalarsIn(segment) :
                         /\ one.part.offset % one.part.type.alignment = 0
                         /\ EndOfPart(one.part) <= Extent(segment)
                         /\ \A other \in ScalarsIn(segment) \ {one} :
                              Apart(one.part, other.part)
  BY DEF ScalarsApart, Apart
<1> DEFINE list == places[segment]
           n == Len(list)
           Place(i) == PartOf(segment, list[i].offset, list[i].type)
           laid == Laid(TypesOf(list))
<1>1. TypesLaid(list) /\ OffsetsLaid(list) /\ EndsThere(segment, laid.size)
  <2>1. TypesIn(segment) = TypesOf(list)
    BY DEF TypesIn, TypesOf
  <2>2. HasRoom(list)
    BY <2>1 DEF Roomy, HasRoom, EndOfList, GlobalsInv
  <2>3. QED
    BY <2>2 DEF GlobalsInv, SegmentLaid, EndOfList
<1>2. /\ n \in Nat /\ DOMAIN list = 1 .. n
      /\ Range(list) = { list[i] : i \in 1 .. n }
  BY <1>1, Lists DEF TypesLaid, Range
<1>3. /\ Len(TypesOf(list)) = n
      /\ \A i \in 1 .. n : TypesOf(list)[i] = list[i].type /\ IsDescriptor(TypesOf(list)[i])
      /\ laid.size \in Nat
  BY <1>1, TypesOfList DEF EndOfList
<1>4. \A i \in 1 .. n : /\ list[i].offset = laid.offsets[i]
                        /\ WellLaid(list[i].type)
                        /\ list[i].type.size \in Nat
  BY <1>1, WellLaidType DEF TypesLaid, OffsetsLaid, IsDescriptor
<1>5. \A i \in 1 .. n : /\ list[i].offset \in Nat
                        /\ list[i].offset % list[i].type.alignment = 0
                        /\ list[i].offset + list[i].type.size <= laid.size
  <2> DEFINE kinds == TypesOf(list)
  <2>1. \A i \in 1 .. n : /\ laid.offsets[i] \in Nat
                          /\ laid.offsets[i] % kinds[i].alignment = 0
                          /\ laid.offsets[i] + kinds[i].size <= laid.size
    <3> HIDE DEF kinds
    <3>1. Len(kinds) = n /\ \A i \in 1 .. n : IsDescriptor(kinds[i])
      BY <1>3 DEF kinds
    <3>2. QED
      BY <1>2, <3>1, LaidInOrder DEF kinds
  <2> HIDE DEF laid, list
  <2>2. QED
    BY <1>3, <1>4, <2>1
<1>6. \A i, j \in 1 .. n : i < j => list[i].offset + list[i].type.size <= list[j].offset
  <2> DEFINE kinds == TypesOf(list)
  <2>1. \A i, j \in 1 .. n :
          i < j => laid.offsets[i] + kinds[i].size <= laid.offsets[j]
    <3> HIDE DEF kinds
    <3>1. Len(kinds) = n /\ \A i \in 1 .. n : IsDescriptor(kinds[i])
      BY <1>3 DEF kinds
    <3>2. QED
      BY <1>2, <3>1, LaidApart DEF kinds
  <2> HIDE DEF laid, list
  <2>2. QED
    BY <1>3, <1>4, <2>1
<1>7. laid.size <= Extent(segment) /\ Extent(segment) \in Nat
  <2>1. CASE segment = "const"
    <3>1. Len(images.const) \in Nat
      BY Lists DEF DataInv
    <3>2. QED
      BY <1>1, <2>1, <3>1 DEF EndsThere, Extent
  <2>2. CASE segment # "const"
    BY <1>1, <1>3, <2>2 DEF EndsThere, Extent
  <2>3. QED
    BY <2>1, <2>2
<1>8. segment = "data" => Len(images.data) = sizes.data
  BY <1>1 DEF EndsThere
<1> HIDE DEF list, laid
<1>9. \A i \in 1 .. n : Leads(Place(i), list[i].offset, list[i].type)
  BY DEF Leads, PartOf
<1> HIDE DEF Place
<1>10. \A i \in 1 .. n : /\ IsPart(Place(i))
                         /\ EndOfPart(Place(i)) = list[i].offset + list[i].type.size
  BY <1>4, <1>5, <1>9 DEF IsPart, Leads, EndOfPart
<1>11. \A i \in 1 .. n : WaysSound(ScalarsOf(list[i], segment), Place(i))
  BY <1>10, ScalarsSound DEF Place
<1>12. \A i, j \in 1 .. n : i # j => Apart(Place(i), Place(j))
  <2> SUFFICES ASSUME NEW i \in 1 .. n, NEW j \in 1 .. n, i # j
               PROVE  Apart(Place(i), Place(j))
    OBVIOUS
  <2>1. i < j \/ j < i
    BY <1>2
  <2>2. Place(i).offset = list[i].offset /\ Place(j).offset = list[j].offset
    BY <1>9 DEF Leads
  <2>3. QED
    BY <1>6, <1>10, <2>1, <2>2 DEF Apart
<1>13. \A way \in ScalarsIn(segment) : \E i \in 1 .. n : way \in ScalarsOf(list[i], segment)
  BY <1>2 DEF ScalarsIn, list
<1>14. ASSUME NEW one \in ScalarsIn(segment)
       PROVE  /\ one.part.offset % one.part.type.alignment = 0
              /\ EndOfPart(one.part) <= Extent(segment)
              /\ \A other \in ScalarsIn(segment) \ {one} : Apart(one.part, other.part)
  <2>1. PICK i \in 1 .. n : one \in ScalarsOf(list[i], segment)
    BY <1>13
  <2>2. IsPart(one.part) /\ Within(one.part, Place(i))
    BY <1>11, <2>1 DEF WaysSound
  <2>3. one.part.offset % one.part.type.alignment = 0
    BY <2>2 DEF IsPart
  <2>4. EndOfPart(one.part) <= Extent(segment)
    <3>1. EndOfPart(one.part) \in Nat /\ EndOfPart(one.part) <= EndOfPart(Place(i))
      BY <2>2, PartBounds DEF Within
    <3>2. EndOfPart(Place(i)) \in Nat /\ EndOfPart(Place(i)) <= laid.size
      BY <1>5, <1>10, PartBounds
    <3>3. QED
      BY <1>3, <1>7, <3>1, <3>2
  <2>5. ASSUME NEW other \in ScalarsIn(segment) \ {one}
        PROVE  Apart(one.part, other.part)
    <3>1. PICK j \in 1 .. n : other \in ScalarsOf(list[j], segment)
      BY <1>13
    <3>2. IsPart(other.part) /\ Within(other.part, Place(j))
      BY <1>11, <3>1 DEF WaysSound
    <3>3. CASE i = j
      BY <1>11, <2>1, <2>5, <3>1, <3>3 DEF WaysSound
    <3>4. CASE i # j
      BY <1>10, <1>12, <2>2, <3>2, <3>4, WithinIsApart
    <3>5. QED
      BY <3>3, <3>4
  <2>6. QED
    BY <2>3, <2>4, <2>5
<1>15. QED
  BY <1>8, <1>14

(* LANGUAGE.md 210, 800; cova/types.go and cova/compile.go: for every      *)
(* program, at every moment from its first declaration to the linked       *)
(* program, each scalar of its globals lies aligned in its segment and has *)
(* its bytes for itself.  So has every struct and array on the way to it:  *)
(* nothing rests on the value of MaxDepth.                                 *)
THEOREM BytesAreOwn == Spec => []ScalarsApart
<1>1. DataSound => DataInv
  BY DEF DataSound
<1>2. QED
  BY <1>1, DataSoundInvariant, GlobalsInvariant, GlobalsApart, PTL

-----------------------------------------------------------------------------
(* Numbers and their bytes.                                                *)

LEMMA PowersByStep ==
  ASSUME NEW size \in Nat
  PROVE  /\ Powers(size)[0] = 1
         /\ \A i \in 1 .. size : Powers(size)[i] = ByteBase * Powers(size)[i - 1]
<1> DEFINE More(before) == ByteBase * before
           Is(f, m) == f = [i \in 0 .. m |-> IF i = 0 THEN 1 ELSE More(f[i - 1])]
           T == { m \in 0 .. size : \E f : Is(f, m) }
<1> HIDE DEF More
<1>1. \E f : Is(f, 0)
  <2>1. Is([i \in 0 .. 0 |-> 1], 0)
    OBVIOUS
  <2>2. QED
    BY <2>1, Zenon
<1>2. ASSUME NEW m \in 1 .. size, NEW f, Is(f, m - 1)
      PROVE  \E g : Is(g, m)
  <2> DEFINE g == [i \in 0 .. m |-> IF i = m THEN More(f[m - 1]) ELSE f[i]]
  <2>1. \A i \in 0 .. m - 1 : g[i] = f[i]
    OBVIOUS
  <2>2. \A i \in 0 .. m - 1 : f[i] = IF i = 0 THEN 1 ELSE More(f[i - 1])
    BY <1>2
  <2>3. \A i \in 0 .. m : g[i] = IF i = 0 THEN 1 ELSE More(g[i - 1])
    BY <2>1, <2>2
  <2>4. g = [i \in 0 .. m |-> IF i = 0 THEN 1 ELSE More(g[i - 1])]
    BY <2>3
  <2> HIDE DEF g
  <2>5. QED
    BY <2>4, Zenon
<1> HIDE DEF Is
<1>3. 0 \in T /\ \A m \in 1 .. size : m - 1 \in T => m \in T
  BY <1>1, <1>2
<1>4. size \in T
  <2> HIDE DEF T
  <2>1. 0 .. size \subseteq T
    BY <1>3, CountingUp
  <2>2. QED
    BY <2>1
<1>5. Is(Powers(size), size)
  <2>1. \E f : Is(f, size)
    BY <1>4
  <2>2. Powers(size) = CHOOSE f : Is(f, size)
    BY Zenon DEF Powers, Is, More
  <2>3. QED
    BY <2>1, <2>2, Zenon
<1>6. \A i \in 0 .. size :
        Powers(size)[i] = IF i = 0 THEN 1 ELSE More(Powers(size)[i - 1])
  BY <1>5 DEF Is
<1>7. Powers(size)[0] = 1
  BY <1>6
<1>8. \A i \in 1 .. size : Powers(size)[i] = More(Powers(size)[i - 1])
  BY <1>6
<1>9. QED
  BY <1>7, <1>8, Zenon DEF More

LEMMA NumberByStep ==
  ASSUME NEW bytes, Len(bytes) \in Nat
  PROVE  /\ Number(bytes)[0] = 0
         /\ \A i \in 1 .. Len(bytes) :
              Number(bytes)[i] =
                Number(bytes)[i - 1] + bytes[i] * Powers(Len(bytes))[i - 1]
<1> DEFINE size == Len(bytes)
           More(i, before) == before + bytes[i] * Powers(size)[i - 1]
           Is(f, m) == f = [i \in 0 .. m |-> IF i = 0 THEN 0 ELSE More(i, f[i - 1])]
           T == { m \in 0 .. size : \E f : Is(f, m) }
<1> HIDE DEF More
<1>1. \E f : Is(f, 0)
  <2>1. Is([i \in 0 .. 0 |-> 0], 0)
    OBVIOUS
  <2>2. QED
    BY <2>1, Zenon
<1>2. ASSUME NEW m \in 1 .. size, NEW f, Is(f, m - 1)
      PROVE  \E g : Is(g, m)
  <2> DEFINE g == [i \in 0 .. m |-> IF i = m THEN More(m, f[m - 1]) ELSE f[i]]
  <2>1. \A i \in 0 .. m - 1 : g[i] = f[i]
    OBVIOUS
  <2>2. \A i \in 0 .. m - 1 : f[i] = IF i = 0 THEN 0 ELSE More(i, f[i - 1])
    BY <1>2
  <2>3. \A i \in 0 .. m : g[i] = IF i = 0 THEN 0 ELSE More(i, g[i - 1])
    BY <2>1, <2>2
  <2>4. g = [i \in 0 .. m |-> IF i = 0 THEN 0 ELSE More(i, g[i - 1])]
    BY <2>3
  <2> HIDE DEF g
  <2>5. QED
    BY <2>4, Zenon
<1> HIDE DEF Is
<1>3. 0 \in T /\ \A m \in 1 .. size : m - 1 \in T => m \in T
  BY <1>1, <1>2
<1>4. size \in T
  <2> HIDE DEF T
  <2>1. 0 .. size \subseteq T
    BY <1>3, CountingUp
  <2>2. QED
    BY <2>1
<1>5. Is(Number(bytes), size)
  <2>1. \E f : Is(f, size)
    BY <1>4
  <2>2. Number(bytes) = CHOOSE f : Is(f, size)
    BY Zenon DEF Number, Is, More, size
  <2>3. QED
    BY <2>1, <2>2, Zenon
<1>6. \A i \in 0 .. size :
        Number(bytes)[i] = IF i = 0 THEN 0 ELSE More(i, Number(bytes)[i - 1])
  BY <1>5 DEF Is
<1>7. Number(bytes)[0] = 0
  BY <1>6
<1>8. \A i \in 1 .. size : Number(bytes)[i] = More(i, Number(bytes)[i - 1])
  BY <1>6
<1>9. QED
  BY <1>7, <1>8, Zenon DEF More, size

LEMMA PowersPositive ==
  ASSUME NEW size \in Nat
  PROVE  \A i \in 0 .. size : Powers(size)[i] \in Nat /\ Powers(size)[i] > 0
<1> DEFINE T == { i \in 0 .. size : Powers(size)[i] \in Nat /\ Powers(size)[i] > 0 }
<1>1. ByteBase \in Nat /\ ByteBase > 0
  BY LayoutAssumption
<1>2. 0 \in T
  BY PowersByStep
<1>3. ASSUME NEW i \in 1 .. size, i - 1 \in T PROVE i \in T
  <2> DEFINE before == Powers(size)[i - 1]
  <2>1. before \in Nat /\ before > 0
    BY <1>3
  <2>2. Powers(size)[i] = ByteBase * before
    BY PowersByStep
  <2> HIDE DEF before
  <2>3. ByteBase * before \in Nat /\ ByteBase * before > 0
    BY <1>1, <2>1
  <2>4. QED
    BY <2>2, <2>3
<1> HIDE DEF T
<1>4. 0 .. size \subseteq T
  BY <1>2, <1>3, CountingUp
<1>5. QED
  BY <1>4 DEF T

(* The quotient and the remainder of a division are the only ones. *)
LEMMA OneDivision ==
  ASSUME NEW n \in Int, NEW d \in Nat, d > 0, NEW q \in Int, NEW r \in Nat, r < d,
         n = q * d + r
  PROVE  n \div d = q /\ n % d = r
<1> DEFINE p == n \div d
           s == n % d
<1>1. p \in Int /\ s \in Nat /\ s < d /\ n = d * p + s
  OBVIOUS
<1> HIDE DEF p, s
<1> DEFINE e == q - p
<1>2. e \in Int /\ q = p + e
  BY <1>1
<1> HIDE DEF e
<1>3. d * e = s - r
  <2>1. q * d = d * p + d * e
    BY <1>1, <1>2
  <2> DEFINE a == q * d
             b == d * p
             c == d * e
  <2>2. a \in Int /\ b \in Int /\ c \in Int
    BY <1>1, <1>2
  <2>3. a = b + c /\ n = a + r /\ n = b + s
    BY <1>1, <2>1
  <2> HIDE DEF a, b, c
  <2>4. c = s - r
    BY <1>1, <2>2, <2>3
  <2>5. QED
    BY <2>4 DEF c
<1>4. ~ (e >= 1)
  <2> SUFFICES ASSUME e >= 1 PROVE FALSE
    OBVIOUS
  <2>1. d * e >= d
    BY <1>2
  <2> DEFINE c == d * e
  <2>2. c \in Int /\ c >= d /\ c = s - r
    BY <1>2, <1>3, <2>1
  <2> HIDE DEF c
  <2>3. QED
    BY <1>1, <2>2
<1>5. ~ (e <= -1)
  <2> SUFFICES ASSUME e <= -1 PROVE FALSE
    OBVIOUS
  <2>1. d * e <= -d
    <3>1. d * e = - (d * (-e)) /\ -e >= 1
      BY <1>2
    <3>2. d * (-e) >= d
      BY <1>2, <3>1
    <3>3. QED
      BY <1>2, <3>1, <3>2
  <2> DEFINE c == d * e
  <2>2. c \in Int /\ c <= -d /\ c = s - r
    BY <1>2, <1>3, <2>1
  <2> HIDE DEF c
  <2>3. QED
    BY <1>1, <2>2
<1>6. e = 0
  BY <1>2, <1>4, <1>5
<1>7. q = p /\ s = r
  <2>1. d * e = 0
    BY <1>6
  <2>2. QED
    BY <1>1, <1>2, <1>3, <1>6, <2>1
<1>8. QED
  BY <1>7 DEF p, s

(* The bytes of a number make the number again, as far as they go. *)
LEMMA BytesTell ==
  ASSUME NEW number \in Int, NEW size \in Nat, NEW bytes, Len(bytes) = size,
         \A i \in 1 .. size : bytes[i] = Bytes(number, size)[i]
  PROVE  Number(bytes)[size] = number % Powers(size)[size]
<1> DEFINE P(i) == Powers(size)[i]
           N(i) == Number(bytes)[i]
           T == { i \in 0 .. size : /\ N(i) \in Nat /\ N(i) < P(i)
                                    /\ number = (number \div P(i)) * P(i) + N(i) }
<1>1. \A i \in 0 .. size : P(i) \in Nat /\ P(i) > 0
  BY PowersPositive
<1>2. P(0) = 1 /\ \A i \in 1 .. size : P(i) = ByteBase * P(i - 1)
  BY PowersByStep
<1>3. N(0) = 0 /\ \A i \in 1 .. size : N(i) = N(i - 1) + bytes[i] * P(i - 1)
  BY NumberByStep
<1>4. \A i \in 1 .. size : bytes[i] = (number \div P(i - 1)) % ByteBase
  BY DEF Bytes
<1>5. ByteBase \in Nat /\ ByteBase > 0
  BY LayoutAssumption
<1> HIDE DEF P, N
<1>6. 0 \in T
  BY <1>2, <1>3
<1>7. ASSUME NEW i \in 1 .. size, i - 1 \in T PROVE i \in T
  <2> DEFINE p == P(i - 1)
             n == N(i - 1)
             q == number \div p
             up == q \div ByteBase
             digit == q % ByteBase
  <2>1. p \in Nat /\ p > 0 /\ n \in Nat /\ n < p /\ number = q * p + n
    BY <1>1, <1>7
  <2>2. q \in Int
    BY <2>1
  <2>3. P(i) = ByteBase * p /\ N(i) = n + digit * p
    BY <1>2, <1>3, <1>4
  <2> HIDE DEF p, n, q
  <2>4. up \in Int /\ digit \in Nat /\ digit <= ByteBase - 1 /\ q = ByteBase * up + digit
    BY <1>5, <2>2
  <2> HIDE DEF up, digit
  <2> DEFINE whole == ByteBase * p
             part == n + digit * p
  <2>5. whole \in Nat /\ whole > 0 /\ part \in Nat /\ part < whole
    <3>1. digit * p <= (ByteBase - 1) * p
      BY <1>5, <2>1, <2>4
    <3>2. (ByteBase - 1) * p = ByteBase * p - p
      BY <1>5, <2>1
    <3>3. digit * p \in Nat /\ ByteBase * p \in Nat /\ ByteBase * p > 0
      BY <1>5, <2>1, <2>4
    <3> DEFINE a == digit * p
               b == ByteBase * p
               c == (ByteBase - 1) * p
    <3>4. a \in Nat /\ b \in Nat /\ b > 0 /\ a <= c /\ c = b - p
      BY <3>1, <3>2, <3>3
    <3> HIDE DEF a, b, c
    <3>5. b \in Nat /\ b > 0 /\ n + a \in Nat /\ n + a < b
      BY <2>1, <3>4
    <3>6. QED
      BY <3>5 DEF a, b
  <2>6. number = up * whole + part
    <3>1. q * p = up * (ByteBase * p) + digit * p
      BY <1>5, <2>1, <2>4
    <3> DEFINE a == q * p
               b == up * (ByteBase * p)
               c == digit * p
    <3>2. a \in Int /\ b \in Int /\ c \in Int
      BY <1>5, <2>1, <2>2, <2>4
    <3>3. a = b + c /\ number = a + n
      BY <2>1, <3>1
    <3> HIDE DEF a, b, c
    <3>4. number = b + (n + c)
      BY <2>1, <3>2, <3>3
    <3>5. QED
      BY <3>4 DEF b, c
  <2> HIDE DEF whole, part
  <2>7. number \div whole = up
    BY <2>4, <2>5, <2>6, OneDivision
  <2>8. P(i) = whole /\ N(i) = part
    BY <2>3 DEF whole, part
  <2>9. QED
    BY <2>5, <2>6, <2>7, <2>8
<1> HIDE DEF T
<1>8. 0 .. size \subseteq T
  BY <1>6, <1>7, CountingUp
<1>9. size \in T
  BY <1>8
<1> DEFINE whole == P(size)
           part == N(size)
           q == number \div whole
<1>10. whole \in Nat /\ whole > 0
  BY <1>1
<1>11. part \in Nat /\ part < whole /\ number = q * whole + part
  BY <1>9 DEF T
<1> HIDE DEF whole, part
<1>12. q \in Int
  BY <1>10
<1> HIDE DEF q
<1>13. number % whole = part
  BY <1>10, <1>11, <1>12, OneDivision
<1>14. QED
  BY <1>13 DEF whole, part, P, N

-----------------------------------------------------------------------------
(* Literals: what the pool of strings says is in the image.                *)

(* The text at this place, cell by cell. *)
TextAt(image, offset, text) ==
  /\ IsList(text) /\ offset \in Nat
  /\ offset + Len(text) < Len(image)
  /\ \A j \in 1 .. Len(text) : image[offset + j] = text[j]
  /\ image[offset + Len(text) + 1] = 0

(* The literals lie behind a place in the image that nothing is written    *)
(* behind but literals.                                                    *)
LiteralsLie(image, known, from) ==
  \A text \in DOMAIN known : from <= known[text] /\ TextAt(image, known[text], text)

Extends(image, longer) ==
  /\ IsList(image) /\ IsList(longer) /\ Len(image) <= Len(longer)
  /\ \A i \in 1 .. Len(image) : longer[i] = image[i]

LEMMA AddressSpaceFits ==
  /\ AddressSpace \in Nat /\ AddressSpace > 0 /\ AddressSpace <= MaxOffset
  /\ 5 * AddressSpace <= MaxOffset + 1
<1>1. ByteBase \in Nat /\ ByteBase > 4
  BY LayoutAssumption
<1>2. AddressSpace \in Nat /\ AddressSpace > 0
  <2>1. ByteBase * ByteBase \in Nat /\ ByteBase * ByteBase > 0
    BY <1>1
  <2> DEFINE square == ByteBase * ByteBase
  <2> HIDE DEF square
  <2>2. square * ByteBase \in Nat /\ square * ByteBase > 0
    BY <1>1, <2>1 DEF square
  <2>3. QED
    BY <2>2 DEF AddressSpace, square
<1> HIDE DEF AddressSpace
<1>3. AddressSpace * ByteBase >= AddressSpace * 5
  BY <1>1, <1>2
<1>4. QED
  BY <1>1, <1>2, <1>3 DEF MaxOffset

LEMMA SameLists ==
  ASSUME NEW a, IsList(a), NEW b, IsList(b), Len(a) = Len(b),
         \A i \in 1 .. Len(a) : a[i] = b[i]
  PROVE  a = b
<1> DEFINE S == Range(a) \cup Range(b)
<1>1. a \in Seq(S) /\ b \in Seq(S)
  BY SeqMonotonic DEF IsList
<1> HIDE DEF S
<1>2. QED
  BY <1>1, SeqEqual

LEMMA ExtendsOn ==
  ASSUME NEW image, NEW longer, NEW longest,
         Extends(image, longer), Extends(longer, longest)
  PROVE  Extends(image, longest)
<1>1. Len(image) \in Nat /\ Len(longer) \in Nat /\ Len(longest) \in Nat
  BY Lists DEF Extends
<1>2. QED
  BY <1>1 DEF Extends

LEMMA TextStays ==
  ASSUME NEW image, NEW longer, Extends(image, longer), NEW offset, NEW text,
         TextAt(image, offset, text)
  PROVE  TextAt(longer, offset, text)
<1>1. Len(image) \in Nat /\ Len(longer) \in Nat /\ Len(text) \in Nat
  BY Lists DEF Extends, TextAt
<1>2. \A j \in 1 .. Len(text) : offset + j \in 1 .. Len(image)
  BY <1>1 DEF TextAt
<1>3. offset + Len(text) + 1 \in 1 .. Len(image)
  BY <1>1 DEF TextAt
<1>4. QED
  BY <1>1, <1>2, <1>3 DEF Extends, TextAt

LEMMA LiteralsStay ==
  ASSUME NEW image, NEW longer, Extends(image, longer), NEW known, NEW from,
         LiteralsLie(image, known, from)
  PROVE  LiteralsLie(longer, known, from)
BY TextStays DEF LiteralsLie

LEMMA PartList ==
  ASSUME NEW image, IsList(image), NEW offset \in Nat, NEW size \in Nat,
         offset + size <= Len(image)
  PROVE  LET part == SubSeq(image, offset + 1, offset + size)
         IN  /\ IsList(part) /\ Len(part) = size
             /\ \A i \in 1 .. size : part[i] = image[offset + i]
<1> DEFINE a == offset + 1
           b == offset + size
<1>1. Len(image) \in Nat
  BY Lists
<1>2. /\ a \in Int /\ b \in Int /\ b - a + 1 = size /\ (IF a <= b THEN b - a + 1 ELSE 0) = size
      /\ \A i \in a .. b : i \in 1 .. Len(image)
  BY <1>1
<1>3. \A i \in a .. b : image[i] \in Range(image)
  BY <1>2, Lists
<1>4. \A i \in 1 .. size : a + i - 1 = offset + i
  OBVIOUS
<1> HIDE DEF a, b
<1>5. /\ SubSeq(image, a, b) \in Seq(Range(image))
      /\ Len(SubSeq(image, a, b)) = size
      /\ \A i \in 1 .. size : SubSeq(image, a, b)[i] = image[a + i - 1]
  BY <1>2, <1>3, SubSeqProperties
<1>6. IsList(SubSeq(image, a, b))
  BY <1>5, ListIsSeq
<1>7. QED
  BY <1>4, <1>5, <1>6 DEF a, b

LEMMA TextIsRead ==
  ASSUME NEW image, IsList(image), NEW offset, NEW text, TextAt(image, offset, text)
  PROVE  Reads(image, offset, text)
<1> DEFINE n == Len(text)
           zero == << 0 >>
           both == text \o zero
           part == SubSeq(image, offset + 1, offset + n + 1)
<1>1. n \in Nat /\ offset \in Nat /\ offset + n < Len(image) /\ Len(image) \in Nat
  BY Lists DEF TextAt
<1>2. IsList(zero) /\ Len(zero) = 1 /\ zero[1] = 0
  BY SingleList
<1>3. IsList(text)
  BY DEF TextAt
<1>4. /\ IsList(both) /\ Len(both) = n + 1
      /\ \A i \in 1 .. n : both[i] = text[i]
      /\ both[n + 1] = 0
  <2>1. both = text \o zero
    OBVIOUS
  <2> HIDE DEF zero, both
  <2>4. IsList(text) /\ IsList(zero)
    BY <1>2, <1>3
  <2>2. /\ IsList(both) /\ Len(both) = Len(text) + Len(zero)
        /\ \A i \in 1 .. Len(text) : both[i] = text[i]
        /\ \A i \in 1 .. Len(zero) : both[Len(text) + i] = zero[i]
    BY <2>1, <2>4, ConcatLists
  <2>3. QED
    BY <1>2, <2>2
<1>5. /\ IsList(part) /\ Len(part) = n + 1
      /\ \A i \in 1 .. n + 1 : part[i] = image[offset + i]
  <2>1. offset + n + 1 = offset + (n + 1) /\ n + 1 \in Nat /\ offset + (n + 1) <= Len(image)
    BY <1>1
  <2> DEFINE m == n + 1
  <2>2. m \in Nat /\ offset + m <= Len(image) /\ part = SubSeq(image, offset + 1, offset + m)
    BY <2>1
  <2> HIDE DEF m, part
  <2>3. IsList(part) /\ Len(part) = m /\ \A i \in 1 .. m : part[i] = image[offset + i]
    BY <1>1, <2>2, PartList
  <2>4. QED
    BY <2>3 DEF m
<1>6. \A i \in 1 .. n + 1 : part[i] = both[i]
  BY <1>1, <1>4, <1>5 DEF TextAt
<1> HIDE DEF part, both
<1>7. part = both
  BY <1>1, <1>4, <1>5, <1>6, SameLists
<1>8. QED
  BY <1>1, <1>7 DEF part, both, zero, Reads, n

(* A literal comes in behind what there is. *)
LEMMA InternedHolds ==
  ASSUME NEW pool, IsList(pool.image), NEW text, IsList(text)
  PROVE  LET more == Interned(pool, text)
         IN  /\ Extends(pool.image, more.image)
             /\ text \in DOMAIN more.at
             /\ \A t \in DOMAIN pool.at : t \in DOMAIN more.at /\ more.at[t] = pool.at[t]
             /\ \A from \in Nat :
                  /\ from <= Len(pool.image) /\ Len(more.image) <= MaxOffset
                  /\ LiteralsLie(pool.image, pool.at, from)
                  => LiteralsLie(more.image, more.at, from)
<1> DEFINE more == Interned(pool, text)
           image == pool.image
           zero == << 0 >>
           last == Len(image)
<1>1. last \in Nat /\ Len(text) \in Nat
  BY Lists
<1>2. CASE text \in DOMAIN pool.at
  <2>1. more = pool
    BY <1>2 DEF Interned
  <2>2. Extends(image, image)
    BY <1>1 DEF Extends
  <2>3. QED
    BY <1>2, <2>1, <2>2
<1>3. CASE text \notin DOMAIN pool.at
  <2>1. /\ more.image = image \o text \o zero
        /\ DOMAIN more.at = DOMAIN pool.at \cup {text}
        /\ more.at[text] = Uint32(last)
        /\ \A t \in DOMAIN pool.at : more.at[t] = pool.at[t]
    BY <1>3 DEF Interned
  <2>2. IsList(zero) /\ Len(zero) = 1 /\ zero[1] = 0
    BY SingleList
  <2> HIDE DEF zero
  <2> DEFINE both == image \o text
             all == both \o zero
  <2>3. /\ IsList(both) /\ Len(both) = last + Len(text)
        /\ \A i \in 1 .. last : both[i] = image[i]
        /\ \A i \in 1 .. Len(text) : both[last + i] = text[i]
    BY ConcatLists
  <2>11. all = both \o zero
    OBVIOUS
  <2> HIDE DEF both, all
  <2>4. /\ IsList(all) /\ Len(all) = Len(both) + Len(zero)
        /\ \A i \in 1 .. Len(both) : all[i] = both[i]
        /\ \A i \in 1 .. Len(zero) : all[Len(both) + i] = zero[i]
    <3>1. IsList(both) /\ IsList(zero)
      BY <2>2, <2>3
    <3>2. QED
      BY <2>11, <3>1, ConcatLists
  <2>5. more.image = all
    BY <2>1 DEF all, both
  <2> HIDE DEF all, more, image, last
  <2>6. /\ IsList(all) /\ Len(all) = last + Len(text) + 1
        /\ \A i \in 1 .. last : all[i] = image[i]
        /\ \A i \in 1 .. Len(text) : all[last + i] = text[i]
        /\ all[last + Len(text) + 1] = 0
    BY <1>1, <2>2, <2>3, <2>4
  <2>7. Extends(image, all)
    <3>1. IsList(image) /\ Len(image) = last
      BY DEF image, last
    <3>2. QED
      BY <1>1, <2>6, <3>1 DEF Extends
  <2>8. TextAt(all, last, text)
    BY <1>1, <2>6 DEF TextAt
  <2>9. ASSUME NEW from \in Nat, from <= last, Len(all) <= MaxOffset,
               LiteralsLie(image, pool.at, from)
        PROVE  LiteralsLie(all, more.at, from)
    <3>1. last <= MaxOffset
      <4>1. MaxOffset \in Nat
        BY MaxOffsetIsNat
      <4>2. QED
        BY <1>1, <2>6, <2>9, <4>1
    <3>2. Uint32(last) = last
      BY <1>1, <3>1, SmallUint32
    <3>3. LiteralsLie(all, pool.at, from)
      BY <2>7, <2>9, LiteralsStay
    <3>4. QED
      BY <2>1, <2>8, <2>9, <3>2, <3>3 DEF LiteralsLie
  <2>10. QED
    BY <2>1, <2>5, <2>7, <2>9 DEF more, image, last
<1>4. QED
  BY <1>2, <1>3

LEMMA PoolHolds ==
  ASSUME IsList(images.const), NEW body, IsList(body),
         \A cell \in Range(body) : cell.op = "text" => IsList(cell.text)
  PROVE  LET more == PoolWith(body)
         IN  /\ Extends(images.const, more.image)
             /\ \A t \in DOMAIN strings : t \in DOMAIN more.at /\ more.at[t] = strings[t]
             /\ \A from \in Nat :
                  /\ from <= Len(images.const) /\ Len(more.image) <= MaxOffset
                  /\ LiteralsLie(images.const, strings, from)
                  => LiteralsLie(more.image, more.at, from)
<1> DEFINE pools == Pools(body)
           image == images.const
           Good(pool) ==
             /\ Extends(image, pool.image)
             /\ \A t \in DOMAIN strings : t \in DOMAIN pool.at /\ pool.at[t] = strings[t]
             /\ \A from \in Nat :
                  /\ from <= Len(image) /\ Len(pool.image) <= MaxOffset
                  /\ LiteralsLie(image, strings, from)
                  => LiteralsLie(pool.image, pool.at, from)
           T == { i \in 0 .. Len(body) : Good(pools[i]) }
<1>1. Len(body) \in Nat /\ \A i \in 1 .. Len(body) : body[i] \in Range(body)
  BY Lists
<1>2. /\ pools[0] = Pool
      /\ \A i \in 1 .. Len(body) :
           pools[i] = IF body[i].op # "text" THEN pools[i - 1]
                      ELSE Interned(pools[i - 1], body[i].text)
  BY <1>1, PoolsByStep
<1>3. Good(Pool)
  <2>1. Pool.image = image /\ Pool.at = strings
    BY DEF Pool
  <2>2. Extends(image, image)
    BY Lists DEF Extends
  <2>3. QED
    BY <2>1, <2>2
<1>4. MaxOffset \in Nat
  BY MaxOffsetIsNat
<1> HIDE DEF pools, image
<1>5. ASSUME NEW i \in 1 .. Len(body), Good(pools[i - 1])
      PROVE  Good(pools[i])
  <2>1. CASE body[i].op # "text"
    BY <1>2, <1>5, <2>1
  <2>2. CASE body[i].op = "text"
    <3> DEFINE text == body[i].text
               before == pools[i - 1]
               after == pools[i]
    <3>1. IsList(text)
      BY <1>1, <2>2
    <3>2. after = Interned(before, text)
      BY <1>2, <2>2
    <3>3. /\ Extends(image, before.image) /\ IsList(before.image)
          /\ \A t \in DOMAIN strings : t \in DOMAIN before.at /\ before.at[t] = strings[t]
          /\ \A from \in Nat :
               /\ from <= Len(image) /\ Len(before.image) <= MaxOffset
               /\ LiteralsLie(image, strings, from)
               => LiteralsLie(before.image, before.at, from)
      BY <1>5 DEF Extends
    <3> HIDE DEF text, before, after, Good
    <3>4. /\ Extends(before.image, after.image)
          /\ \A t \in DOMAIN before.at : t \in DOMAIN after.at /\ after.at[t] = before.at[t]
          /\ \A from \in Nat :
               /\ from <= Len(before.image) /\ Len(after.image) <= MaxOffset
               /\ LiteralsLie(before.image, before.at, from)
               => LiteralsLie(after.image, after.at, from)
      BY <3>1, <3>2, <3>3, InternedHolds
    <3>5. Extends(image, after.image)
      BY <3>3, <3>4, ExtendsOn
    <3>6. /\ Len(image) \in Nat /\ Len(before.image) \in Nat /\ Len(after.image) \in Nat
          /\ Len(image) <= Len(before.image) /\ Len(before.image) <= Len(after.image)
      BY <3>3, <3>4, Lists DEF Extends
    <3>7. ASSUME NEW from \in Nat, from <= Len(image), Len(after.image) <= MaxOffset,
                 LiteralsLie(image, strings, from)
          PROVE  LiteralsLie(after.image, after.at, from)
      <4>1. from <= Len(before.image) /\ Len(before.image) <= MaxOffset
        BY <1>4, <3>6, <3>7
      <4>2. QED
        BY <3>3, <3>4, <3>7, <4>1
    <3>8. Good(after)
      BY <3>3, <3>4, <3>5, <3>7 DEF Good
    <3>9. QED
      BY <3>8 DEF after
  <2>3. QED
    BY <2>1, <2>2
<1> HIDE DEF Good
<1>6. 0 \in T /\ \A i \in 1 .. Len(body) : i - 1 \in T => i \in T
  BY <1>1, <1>2, <1>3, <1>5
<1> HIDE DEF T
<1>7. 0 .. Len(body) \subseteq T
  BY <1>1, <1>6, CountingUp
<1>8. Len(body) \in T
  BY <1>1, <1>7
<1>9. Good(PoolWith(body))
  BY <1>8 DEF T, pools, PoolWith
<1>10. QED
  BY <1>9 DEF Good, image

-----------------------------------------------------------------------------
(* The cells of a global.                                                  *)

HasBytes(image, place, number) ==
  \A i \in 1 .. place.type.size : image[place.offset + i] = Bytes(number, place.type.size)[i]

SameCells(image, other, place) ==
  \A i \in 1 .. place.type.size : other[place.offset + i] = image[place.offset + i]

(* The bytes of an image that belong to a global. *)
LiesIn(place, image) ==
  /\ place.offset \in Nat /\ place.type.size \in Nat
  /\ place.offset + place.type.size <= Len(image)

IsApart(place, other) ==
  \/ place.offset + place.type.size <= other.offset
  \/ other.offset + other.type.size <= place.offset

LEMMA CellsOf ==
  ASSUME NEW image, IsList(image), NEW place, LiesIn(place, image)
  PROVE  /\ Len(image) \in Nat /\ DOMAIN image = 1 .. Len(image)
         /\ \A i \in 1 .. place.type.size : place.offset + i \in 1 .. Len(image)
<1>1. Len(image) \in Nat /\ DOMAIN image = 1 .. Len(image)
  BY Lists
<1>2. QED
  BY <1>1 DEF LiesIn

LEMMA CellsStay ==
  ASSUME NEW image, NEW longer, Extends(image, longer), NEW place, LiesIn(place, image)
  PROVE  SameCells(image, longer, place)
BY CellsOf DEF Extends, SameCells

LEMMA WrittenCells ==
  ASSUME NEW image, IsList(image), NEW offset \in Nat, NEW number, NEW size \in Nat
  PROVE  LET filled == WrittenTo(image, offset, Bytes(number, size))
         IN  \A i \in 1 .. Len(image) :
               filled[i] = IF offset < i /\ i <= offset + size
                           THEN Bytes(number, size)[i - offset] ELSE image[i]
<1> DEFINE bytes == Bytes(number, size)
           filled == WrittenTo(image, offset, bytes)
<1>1. DOMAIN bytes = 1 .. size
  BY DEF Bytes
<1>2. DOMAIN image = 1 .. Len(image) /\ Len(image) \in Nat
  BY Lists
<1> HIDE DEF bytes
<1>3. \A i \in 1 .. Len(image) :
        filled[i] = IF i - offset \in 1 .. size THEN bytes[i - offset] ELSE image[i]
  BY <1>1, <1>2 DEF WrittenTo
<1>4. \A i \in 1 .. Len(image) : i - offset \in 1 .. size <=> offset < i /\ i <= offset + size
  BY <1>2
<1> HIDE DEF filled
<1>5. QED
  BY <1>3, <1>4 DEF filled, bytes

LEMMA WrittenHolds ==
  ASSUME NEW image, IsList(image), NEW number, NEW place, LiesIn(place, image)
  PROVE  HasBytes(WrittenTo(image, place.offset, Bytes(number, place.type.size)),
                  place, number)
<1> DEFINE offset == place.offset
           size == place.type.size
           filled == WrittenTo(image, offset, Bytes(number, size))
<1>1. offset \in Nat /\ size \in Nat
  BY DEF LiesIn
<1>2. \A i \in 1 .. Len(image) :
        filled[i] = IF offset < i /\ i <= offset + size
                    THEN Bytes(number, size)[i - offset] ELSE image[i]
  <2> HIDE DEF offset, size
  <2>1. QED
    BY <1>1, WrittenCells
<1>3. \A i \in 1 .. size : offset + i \in 1 .. Len(image)
  BY CellsOf
<1> HIDE DEF filled, offset, size
<1>4. ASSUME NEW i \in 1 .. size
      PROVE  filled[offset + i] = Bytes(number, size)[i]
  <2>1. offset < offset + i /\ offset + i <= offset + size /\ (offset + i) - offset = i
    BY <1>1
  <2>2. QED
    BY <1>2, <1>3, <2>1
<1>5. QED
  BY <1>4 DEF HasBytes, filled, offset, size

LEMMA WrittenElsewhere ==
  ASSUME NEW image, IsList(image), NEW number, NEW place, LiesIn(place, image),
         NEW other, LiesIn(other, image), IsApart(place, other)
  PROVE  SameCells(image, WrittenTo(image, place.offset, Bytes(number, place.type.size)),
                   other)
<1> DEFINE offset == place.offset
           size == place.type.size
           filled == WrittenTo(image, offset, Bytes(number, size))
<1>1. offset \in Nat /\ size \in Nat /\ other.offset \in Nat /\ other.type.size \in Nat
  BY DEF LiesIn
<1>2. \A i \in 1 .. Len(image) :
        filled[i] = IF offset < i /\ i <= offset + size
                    THEN Bytes(number, size)[i - offset] ELSE image[i]
  <2> HIDE DEF offset, size
  <2>1. QED
    BY <1>1, WrittenCells
<1>3. \A i \in 1 .. other.type.size : other.offset + i \in 1 .. Len(image)
  BY CellsOf
<1>4. offset + size <= other.offset \/ other.offset + other.type.size <= offset
  BY DEF IsApart
<1> HIDE DEF filled, offset, size
<1>5. \A i \in 1 .. other.type.size :
        ~ (offset < other.offset + i /\ other.offset + i <= offset + size)
  BY <1>1, <1>4
<1>6. QED
  BY <1>2, <1>3, <1>5 DEF SameCells, filled, offset, size

LEMMA WrittenBefore ==
  ASSUME NEW image, IsList(image), NEW number, NEW place, LiesIn(place, image),
         NEW known, NEW from \in Nat, place.offset + place.type.size <= from,
         LiteralsLie(image, known, from)
  PROVE  LiteralsLie(WrittenTo(image, place.offset, Bytes(number, place.type.size)),
                     known, from)
<1> DEFINE offset == place.offset
           size == place.type.size
           filled == WrittenTo(image, offset, Bytes(number, size))
<1>1. offset \in Nat /\ size \in Nat /\ Len(image) \in Nat /\ offset + size <= from
  BY Lists DEF LiesIn
<1>2. \A i \in 1 .. Len(image) :
        filled[i] = IF offset < i /\ i <= offset + size
                    THEN Bytes(number, size)[i - offset] ELSE image[i]
  <2> HIDE DEF offset, size
  <2>1. QED
    BY <1>1, WrittenCells
<1>3. Len(filled) = Len(image)
  BY WrittenLength
<1> HIDE DEF filled, offset, size
<1>4. \A i \in 1 .. Len(image) : i > from => filled[i] = image[i]
  BY <1>1, <1>2
<1>5. ASSUME NEW text, NEW start, TextAt(image, start, text), from <= start
      PROVE  TextAt(filled, start, text)
  <2>1. Len(text) \in Nat /\ start \in Nat /\ start + Len(text) < Len(image)
    BY <1>5, Lists DEF TextAt
  <2>2. \A j \in 1 .. Len(text) : start + j \in 1 .. Len(image) /\ start + j > from
    BY <1>1, <1>5, <2>1
  <2>3. start + Len(text) + 1 \in 1 .. Len(image) /\ start + Len(text) + 1 > from
    BY <1>1, <1>5, <2>1
  <2>4. QED
    BY <1>3, <1>4, <1>5, <2>2, <2>3 DEF TextAt
<1>6. QED
  BY <1>5 DEF LiteralsLie, filled, offset, size

(* The globals of a segment lie one after another. *)
LEMMA PlacesInOrder ==
  ASSUME NEW list, TypesLaid(list), OffsetsLaid(list)
  PROVE  /\ Len(list) \in Nat /\ EndOfList(list) \in Nat
         /\ \A i \in 1 .. Len(list) :
              /\ list[i].offset \in Nat /\ list[i].type.size \in Nat
              /\ list[i].offset % list[i].type.alignment = 0
              /\ list[i].offset + list[i].type.size <= EndOfList(list)
         /\ \A i, j \in 1 .. Len(list) : i # j => IsApart(list[i], list[j])
<1> DEFINE kinds == TypesOf(list)
           laid == Laid(kinds)
           n == Len(list)
<1>1. /\ n \in Nat /\ Len(kinds) = n /\ EndOfList(list) = laid.size
      /\ \A i \in 1 .. n : kinds[i] = list[i].type /\ IsDescriptor(kinds[i])
  BY TypesOfList DEF EndOfList
<1>2. \A i \in 1 .. n : list[i].offset = laid.offsets[i]
  BY DEF OffsetsLaid
<1>3. /\ laid.size \in Nat
      /\ \A i \in 1 .. n : /\ laid.offsets[i] \in Nat
                           /\ laid.offsets[i] % kinds[i].alignment = 0
                           /\ laid.offsets[i] + kinds[i].size <= laid.size
      /\ \A i, j \in 1 .. n : i < j => laid.offsets[i] + kinds[i].size <= laid.offsets[j]
  <2> HIDE DEF kinds
  <2>1. QED
    BY <1>1, LaidInOrder, LaidApart
<1> HIDE DEF kinds, laid
<1>4. \A i \in 1 .. n : kinds[i].size \in Nat
  BY <1>1 DEF IsDescriptor
<1>5. \A i, j \in 1 .. n : i # j => i < j \/ j < i
  BY <1>1
<1>6. QED
  BY <1>1, <1>2, <1>3, <1>4, <1>5 DEF IsApart

-----------------------------------------------------------------------------
(* Each variable that was read has one place, in the segment of its        *)
(* declaration, and each place is a variable's.                            *)

IsPlaceOf(k, segment, i) ==
  /\ Decl(k).kind = "variable" /\ SegmentOf(Decl(k)) = segment
  /\ places[segment][i].name = Decl(k).name

PlacesNamed ==
  /\ \A segment \in Segments : \A i \in 1 .. Len(places[segment]) :
       \E k \in 1 .. DeclsRead : IsPlaceOf(k, segment, i)
  /\ \A k \in 1 .. DeclsRead : Decl(k).kind = "variable" =>
       \E i \in 1 .. Len(places[SegmentOf(Decl(k))]) : IsPlaceOf(k, SegmentOf(Decl(k)), i)
  /\ \A segment \in Segments : \A i, j \in 1 .. Len(places[segment]) :
       places[segment][i].name = places[segment][j].name => i = j

PlacesNamedInv == stage # "failed" => PlacesNamed

LEMMA SegmentsAre ==
  ASSUME NEW d
  PROVE  SegmentOf(d) \in Segments
BY DEF SegmentOf, Segments

LEMMA RegisteringNames ==
  ASSUME StageInv, SymbolsInv, GlobalsInv, GlobalsInv', PlacesNamed, RegisterDeclaration,
         stage' # "failed"
  PROVE  PlacesNamed'
<1>1. PICK last : last = at
  OBVIOUS
<1>2. PICK d : d = Decl(last)
  OBVIOUS
<1>3. /\ stage = "register" /\ stage' = "register" /\ at' = last + 1
      /\ last \in 1 .. Len(source.decls) /\ source' = source
      /\ IF d.kind = "variable" THEN RegisterVariable(d) ELSE RegisterExtern(d)
  BY <1>1, <1>2, SourceLists DEF RegisterDeclaration, Failed, StageInv, Decl
<1>4. DeclsRead = last - 1 /\ DeclsRead' = last /\ last \in Nat \ {0}
  BY <1>1, <1>3 DEF DeclsRead, StageInv
<1>5. \A k : Decl(k)' = Decl(k) /\ SegmentOf(Decl(k))' = SegmentOf(Decl(k))
  BY <1>3 DEF Decl, SegmentOf
<1>6. /\ \A k \in 1 .. last : k \in 1 .. last - 1 \/ k = last
      /\ \A k \in 1 .. last - 1 : k \in 1 .. last
      /\ last \in 1 .. last
  BY <1>4
<1>7. CASE d.kind # "variable"
  <2>1. places' = places
    BY <1>3, <1>7 DEF RegisterExtern, layoutVars
  <2>2. \A k, segment, i : IsPlaceOf(k, segment, i)' <=> IsPlaceOf(k, segment, i)
    BY <1>5, <2>1 DEF IsPlaceOf
  <2>3. \A k \in 1 .. last : Decl(k).kind = "variable" => k \in 1 .. last - 1
    BY <1>2, <1>6, <1>7
  <2>4. QED
    BY <1>4, <1>5, <1>6, <2>1, <2>2, <2>3 DEF PlacesNamed
<1>8. CASE d.kind = "variable"
  <2>1. PICK segment : segment = SegmentOf(d)
    OBVIOUS
  <2>2. PICK list : list = places[segment]
    OBVIOUS
  <2>3. PICK place : place.name = d.name
                     /\ places' = [places EXCEPT ![segment] = Append(@, place)]
    <3> DEFINE new == [name |-> d.name, type |-> TypeOf(d.type),
                       offset |-> AlignUpWrapping(EndOf(segment), TypeOf(d.type).alignment)]
    <3>1. new.name = d.name /\ places' = [places EXCEPT ![segment] = Append(@, new)]
      BY <1>3, <1>8, <2>1 DEF RegisterVariable, PlaceVariable
    <3>2. QED
      BY <3>1
  <2>4. segment \in Segments /\ DOMAIN places = Segments
    BY <2>1, SegmentsAre DEF GlobalsInv
  <2>5. IsList(list)
    BY <2>2, <2>4 DEF GlobalsInv, SegmentLaid, TypesLaid
  <2>6. PICK longer : longer = Append(list, place)
    OBVIOUS
  <2>7. \A s \in Segments : places'[s] = IF s = segment THEN longer ELSE places[s]
    BY <2>2, <2>3, <2>4, <2>6
  <2>8. PICK n : n = Len(list)
    OBVIOUS
  <2>9. /\ n \in Nat /\ Len(longer) = n + 1
        /\ \A i \in 1 .. n : longer[i] = list[i]
        /\ longer[n + 1] = place
    BY <2>5, <2>6, <2>8, AppendToList, Lists
  <2>10. \A i \in 1 .. n + 1 : i \in 1 .. n \/ i = n + 1
    BY <2>9
  <2>11. d.name \notin DOMAIN symbols
    BY <1>3, <1>8 DEF RegisterVariable, NameRefused
  <2>12. \A k \in 1 .. last - 1 : Decl(k).name \in DOMAIN symbols
    BY <1>3, <1>4 DEF SymbolsInv, NamesInv
  <2>13. ASSUME NEW k, NEW s \in Segments, NEW i, IsPlaceOf(k, s, i),
                i \in 1 .. Len(places[s])
         PROVE  i \in 1 .. Len(places'[s]) /\ IsPlaceOf(k, s, i)'
    <3>1. places'[s][i] = places[s][i] /\ i \in 1 .. Len(places'[s])
      <4>1. CASE s # segment
        BY <2>7, <2>13, <4>1
      <4>2. CASE s = segment
        <5>1. i \in 1 .. n /\ 1 .. n \subseteq 1 .. Len(longer)
          BY <2>2, <2>8, <2>9, <2>13, <4>2
        <5>2. QED
          BY <2>2, <2>7, <2>9, <4>2, <5>1
      <4>3. QED
        BY <4>1, <4>2
    <3>2. QED
      BY <1>5, <2>13, <3>1 DEF IsPlaceOf
  <2>14. IsPlaceOf(last, segment, n + 1)' /\ n + 1 \in 1 .. Len(places'[segment])
    <3>1. places'[segment][n + 1].name = Decl(last).name
      BY <1>2, <2>3, <2>4, <2>7, <2>9
    <3>2. Decl(last).kind = "variable" /\ SegmentOf(Decl(last)) = segment
      BY <1>2, <1>8, <2>1
    <3>3. n + 1 \in 1 .. Len(places'[segment])
      BY <2>4, <2>7, <2>9
    <3>4. QED
      BY <1>5, <3>1, <3>2, <3>3 DEF IsPlaceOf
  <2>15. ASSUME NEW s \in Segments, NEW i \in 1 .. Len(places'[s])
         PROVE  \E k \in 1 .. last : IsPlaceOf(k, s, i)'
    <3>1. CASE i \in 1 .. Len(places[s])
      <4>1. PICK k \in 1 .. last - 1 : IsPlaceOf(k, s, i)
        BY <1>4, <3>1 DEF PlacesNamed
      <4>2. QED
        BY <1>6, <2>13, <3>1, <4>1
    <3>2. CASE i \notin 1 .. Len(places[s])
      <4>1. s = segment
        BY <2>7, <2>15, <3>2
      <4>2. i = n + 1
        BY <2>2, <2>7, <2>8, <2>9, <2>10, <2>15, <3>2, <4>1
      <4>3. QED
        BY <1>6, <2>14, <4>1, <4>2
    <3>3. QED
      BY <3>1, <3>2
  <2>16. ASSUME NEW k \in 1 .. last, Decl(k).kind = "variable",
                NEW s, s = SegmentOf(Decl(k))
         PROVE  \E i \in 1 .. Len(places'[s]) : IsPlaceOf(k, s, i)'
    <3>1. CASE k = last
      BY <1>2, <2>1, <2>14, <2>16, <3>1
    <3>2. CASE k \in 1 .. last - 1
      <4>1. PICK i \in 1 .. Len(places[s]) : IsPlaceOf(k, s, i)
        BY <1>4, <2>16, <3>2 DEF PlacesNamed
      <4>2. s \in Segments
        BY <2>16, SegmentsAre
      <4>3. QED
        BY <2>13, <4>1, <4>2
    <3>3. QED
      BY <1>6, <3>1, <3>2
  <2>17. \A i \in 1 .. n : list[i].name # d.name
    <3> SUFFICES ASSUME NEW i \in 1 .. n, list[i].name = d.name PROVE FALSE
      OBVIOUS
    <3>1. PICK k \in 1 .. last - 1 : IsPlaceOf(k, segment, i)
      BY <1>4, <2>2, <2>4, <2>8 DEF PlacesNamed
    <3>2. Decl(k).name = d.name
      BY <2>2, <3>1 DEF IsPlaceOf
    <3>3. QED
      BY <2>11, <2>12, <3>2
  <2>18. ASSUME NEW s \in Segments, NEW i \in 1 .. Len(places'[s]),
                NEW j \in 1 .. Len(places'[s]), places'[s][i].name = places'[s][j].name
         PROVE  i = j
    <3>1. CASE s # segment
      BY <2>7, <2>18, <3>1 DEF PlacesNamed
    <3>2. CASE s = segment
      <4>1. i \in 1 .. n + 1 /\ j \in 1 .. n + 1 /\ longer[i].name = longer[j].name
        BY <2>7, <2>9, <2>18, <3>2
      <4>2. \A x, y \in 1 .. n : list[x].name = list[y].name => x = y
        BY <2>2, <2>4, <2>8 DEF PlacesNamed
      <4>3. QED
        BY <2>3, <2>9, <2>10, <2>17, <4>1, <4>2
    <3>3. QED
      BY <3>1, <3>2
  <2>19. \A k : SegmentOf(Decl(k))' = SegmentOf(Decl(k)) /\ Decl(k)'.kind = Decl(k).kind
    BY <1>5
  <2>20. QED
    BY <1>4, <2>15, <2>16, <2>18, <2>19 DEF PlacesNamed
<1>9. QED
  BY <1>7, <1>8

(* Only a declaration that is read changes how many are. *)
LEMMA DeclsReadStay ==
  ASSUME StageInv, [Next]_vars, ~ RegisterDeclaration, stage' # "failed"
  PROVE  DeclsRead' = DeclsRead /\ source' = source
<1>1. source' = source /\ Advances
  BY NextAdvances DEF StageInv
<1>2. ~ Counts("register")
  <2>1. CASE RegisterFunction
    BY <2>1 DEF RegisterFunction, Counts
  <2>2. CASE ~ RegisterFunction
    BY <2>2, SymbolsStay
  <2>3. QED
    BY <2>1, <2>2
<1>3. at \in Nat \ {0} /\ DeclsRead \in 0 .. Len(source.decls) /\ stage \in Stages
      /\ Len(source.decls) \in Nat
  BY SourceLists DEF StageInv
<1>4. QED
  BY <1>1, <1>2, <1>3 DEF Advances, Goes, Counts, Fails, DeclsRead, Stages

LEMMA PlacesNamedStep ==
  ASSUME StageInv, SymbolsInv, GlobalsInv, GlobalsInv', PlacesNamedInv, [Next]_vars
  PROVE  PlacesNamedInv'
<1> SUFFICES ASSUME stage' # "failed" PROVE PlacesNamed'
  BY DEF PlacesNamedInv
<1>1. stage # "failed"
  BY NextAdvances DEF StageInv, Advances, Goes, Counts, Fails
<1>2. CASE RegisterDeclaration
  BY <1>1, <1>2, RegisteringNames DEF PlacesNamedInv
<1>3. CASE ~ RegisterDeclaration
  <2>1. places' = places /\ DeclsRead' = DeclsRead /\ source' = source
    BY <1>3, PlacesStay, DeclsReadStay
  <2>2. \A k : Decl(k)' = Decl(k) /\ SegmentOf(Decl(k))' = SegmentOf(Decl(k))
    BY <2>1 DEF Decl, SegmentOf
  <2>3. \A k, segment, i : IsPlaceOf(k, segment, i)' <=> IsPlaceOf(k, segment, i)
    BY <2>1, <2>2 DEF IsPlaceOf
  <2>4. PlacesNamed
    BY <1>1 DEF PlacesNamedInv
  <2>5. QED
    BY <2>1, <2>2, <2>3, <2>4 DEF PlacesNamed
<1>4. QED
  BY <1>2, <1>3

-----------------------------------------------------------------------------
(* A global that was initialized has the bytes of its value, each other    *)
(* one is zero; and the literals lie behind the globals of the const image. *)

NumberOf(type, initial) ==
  IF type.name # "Bool" THEN initial.number ELSE IF initial.number = 0 THEN 0 ELSE 1

Holds(image, place, initial, known) ==
  IF initial.form = "text"
  THEN /\ place.type.size = 4 /\ initial.text \in DOMAIN known
       /\ HasBytes(image, place, Address(known[initial.text]))
  ELSE HasBytes(image, place, NumberOf(place.type, initial))

(* The initializer of this declaration has run. *)
Filled(k) ==
  /\ Initialized(Decl(k))
  /\ stage \notin {"structs", "register"}
  /\ stage = "initialize" => k < at

Content(k, image, place) ==
  IF Filled(k) THEN Holds(image, place, Decl(k).initial, strings)
  ELSE IsZero(image, place)

ContentOf(segment) ==
  HasRoom(places[segment]) =>
    \A i \in 1 .. Len(places[segment]) : \A k \in 1 .. DeclsRead :
      IsPlaceOf(k, segment, i) => Content(k, images[segment], places[segment][i])

LiteralsInv ==
  /\ stage \in {"structs", "register"} => DOMAIN strings = {}
  /\ HasRoom(places["const"]) /\ Len(images.const) <= MaxOffset =>
       LiteralsLie(images.const, strings, EndOfList(places["const"]))

ValuesInv ==
  stage # "failed" => ContentOf("data") /\ ContentOf("const") /\ LiteralsInv

LEMMA HoldsOn ==
  ASSUME NEW image, NEW other, NEW place, SameCells(image, other, place), NEW initial,
         NEW known, NEW more,
         \A t \in DOMAIN known : t \in DOMAIN more /\ more[t] = known[t],
         Holds(image, place, initial, known)
  PROVE  Holds(other, place, initial, more)
<1>1. \A number : HasBytes(image, place, number) => HasBytes(other, place, number)
  BY DEF HasBytes, SameCells
<1>2. CASE initial.form = "text"
  BY <1>1, <1>2 DEF Holds
<1>3. CASE initial.form # "text"
  BY <1>1, <1>3 DEF Holds
<1>4. QED
  BY <1>2, <1>3

LEMMA ZeroOn ==
  ASSUME NEW image, NEW other, NEW place, SameCells(image, other, place),
         IsZero(image, place)
  PROVE  IsZero(other, place)
BY DEF IsZero, SameCells

(* It is enough to look at each global: its cells stay, and what was said  *)
(* of it; or it has just been filled.                                      *)
LEMMA ContentKept ==
  ASSUME NEW segment, ContentOf(segment), places' = places, source' = source,
         \A k \in 1 .. DeclsRead' : Decl(k).kind = "variable" => k \in 1 .. DeclsRead,
         \A t \in DOMAIN strings : t \in DOMAIN strings' /\ strings'[t] = strings[t],
         HasRoom(places[segment]) =>
           \A i \in 1 .. Len(places[segment]) : \A k \in 1 .. DeclsRead :
             IsPlaceOf(k, segment, i) =>
               \/ /\ Filled(k)' <=> Filled(k)
                  /\ SameCells(images[segment], images'[segment], places[segment][i])
               \/ /\ Filled(k)'
                  /\ Holds(images'[segment], places[segment][i], Decl(k).initial, strings')
  PROVE  ContentOf(segment)'
<1>1. \A k : Decl(k)' = Decl(k) /\ SegmentOf(Decl(k))' = SegmentOf(Decl(k))
  BY DEF Decl, SegmentOf
<1>2. \A k, i : IsPlaceOf(k, segment, i)' <=> IsPlaceOf(k, segment, i)
  BY <1>1 DEF IsPlaceOf
<1>3. SUFFICES ASSUME HasRoom(places[segment]), NEW i \in 1 .. Len(places[segment]),
                      NEW k \in 1 .. DeclsRead', IsPlaceOf(k, segment, i)
               PROVE  IF Filled(k)'
                      THEN Holds(images'[segment], places[segment][i], Decl(k).initial, strings')
                      ELSE IsZero(images'[segment], places[segment][i])
  <2>1. HasRoom(places[segment])' <=> HasRoom(places[segment])
    BY DEF HasRoom, EndOfList, TypesOf, Laid, Ends
  <2>2. QED
    BY <1>1, <1>2, <2>1 DEF ContentOf, Content
<1>4. k \in 1 .. DeclsRead
  BY <1>3 DEF IsPlaceOf
<1> DEFINE place == places[segment][i]
<1>5. Content(k, images[segment], place)
  BY <1>3, <1>4 DEF ContentOf
<1>6. CASE /\ Filled(k)' <=> Filled(k)
           /\ SameCells(images[segment], images'[segment], place)
  <2>1. CASE Filled(k)
    <3>1. Holds(images[segment], place, Decl(k).initial, strings)
      BY <1>5, <2>1 DEF Content
    <3> HIDE DEF place
    <3>2. Holds(images'[segment], place, Decl(k).initial, strings')
      BY <1>6, <3>1, HoldsOn
    <3>3. QED
      BY <1>6, <2>1, <3>2 DEF place
  <2>2. CASE ~ Filled(k)
    <3>1. IsZero(images[segment], place)
      BY <1>5, <2>2 DEF Content
    <3> HIDE DEF place
    <3>2. IsZero(images'[segment], place)
      BY <1>6, <3>1, ZeroOn
    <3>3. QED
      BY <1>6, <2>2, <3>2 DEF place
  <2>3. QED
    BY <2>1, <2>2
<1>7. CASE /\ Filled(k)'
           /\ Holds(images'[segment], place, Decl(k).initial, strings')
  BY <1>7
<1>8. QED
  BY <1>3, <1>4, <1>6, <1>7

LEMMA PlacesLieIn ==
  ASSUME GlobalsInv, DataInv, NEW segment \in {"data", "const"}, HasRoom(places[segment])
  PROVE  /\ EndOfList(places[segment]) \in Nat
         /\ EndOfList(places[segment]) <= Len(images[segment])
         /\ \A i \in 1 .. Len(places[segment]) :
              /\ LiesIn(places[segment][i], images[segment])
              /\ places[segment][i].offset + places[segment][i].type.size
                   <= EndOfList(places[segment])
         /\ \A i, j \in 1 .. Len(places[segment]) :
              i # j => IsApart(places[segment][i], places[segment][j])
<1> DEFINE list == places[segment]
           end == EndOfList(list)
<1>1. TypesLaid(list) /\ OffsetsLaid(list) /\ EndsThere(segment, end)
  <2>1. segment \in Segments
    BY DEF Segments
  <2>2. QED
    BY <2>1 DEF GlobalsInv, SegmentLaid
<1>2. end <= Len(images[segment]) /\ Len(images[segment]) \in Nat
  <2>1. CASE segment = "data"
    <3>1. Len(images.data) = end /\ Len(images.data) \in Nat
      BY <1>1, <2>1, Lists DEF EndsThere, DataInv
    <3>2. QED
      BY <2>1, <3>1
  <2>2. CASE segment = "const"
    <3>1. end <= Len(images.const) /\ Len(images.const) \in Nat
      BY <1>1, <2>2, Lists DEF EndsThere, DataInv
    <3>2. QED
      BY <2>2, <3>1
  <2>3. QED
    BY <2>1, <2>2
<1> HIDE DEF list
<1>3. /\ end \in Nat
      /\ \A i \in 1 .. Len(list) :
           /\ list[i].offset \in Nat /\ list[i].type.size \in Nat
           /\ list[i].offset + list[i].type.size <= end
      /\ \A i, j \in 1 .. Len(list) : i # j => IsApart(list[i], list[j])
  BY <1>1, PlacesInOrder
<1> HIDE DEF end
<1>4. \A i \in 1 .. Len(list) : LiesIn(list[i], images[segment])
  BY <1>2, <1>3 DEF LiesIn
<1>5. QED
  BY <1>2, <1>3, <1>4 DEF end, list

(* Where images are only appended to, their globals keep what they hold. *)
LEMMA ContentAppended ==
  ASSUME GlobalsInv, DataInv, NEW segment \in {"data", "const"}, ContentOf(segment),
         places' = places, source' = source,
         \A k \in 1 .. DeclsRead' : Decl(k).kind = "variable" => k \in 1 .. DeclsRead,
         \A t \in DOMAIN strings : t \in DOMAIN strings' /\ strings'[t] = strings[t],
         \A i \in 1 .. Len(places[segment]) : \A k \in 1 .. DeclsRead :
           IsPlaceOf(k, segment, i) => (Filled(k)' <=> Filled(k)),
         Extends(images[segment], images'[segment])
  PROVE  ContentOf(segment)'
<1>1. ASSUME HasRoom(places[segment])
      PROVE  \A i \in 1 .. Len(places[segment]) :
               SameCells(images[segment], images'[segment], places[segment][i])
  <2>1. \A i \in 1 .. Len(places[segment]) : LiesIn(places[segment][i], images[segment])
    BY <1>1, PlacesLieIn
  <2>2. QED
    BY <2>1, CellsStay
<1>2. QED
  BY <1>1, ContentKept

LEMMA OthersInitializeNothing ==
  ASSUME [Next]_vars, ~ InitializeGlobal, stage = "initialize", stage' # "failed"
  PROVE  stage' = stage /\ at' = at
<1>1. CASE UNCHANGED vars
  BY <1>1 DEF vars
<1>2. CASE ~ UNCHANGED vars
  BY <1>2
     DEF Next, ReadStruct, ReadVariables, RegisterDeclaration, EndDeclarations,
         RegisterFunction, FindEntry, CompileFunction, MarkFromEntry, Mark, EndMark,
         AssembleBlock, EndAssembly, LinkVariable, EndVariables, LinkExterns,
         LinkFunction, EndTables, PatchCall, EndLink
<1>3. QED
  BY <1>1, <1>2

(* What is filled stays so, and nothing is but by an initializer. *)
LEMMA FilledStays ==
  ASSUME StageInv, [Next]_vars, stage' # "failed",
         ~ (InitializeGlobal /\ stage' = "initialize" /\ Initialized(source.decls[at]))
  PROVE  \A k \in 1 .. DeclsRead : Filled(k)' <=> Filled(k)
<1>1. source' = source /\ Advances
  BY NextAdvances DEF StageInv
<1>2. \A k : Initialized(Decl(k))' <=> Initialized(Decl(k))
  BY <1>1 DEF Decl, Initialized
<1>3. at \in Nat /\ DeclsRead \in 0 .. Len(source.decls) /\ Len(source.decls) \in Nat
  BY SourceLists DEF StageInv
<1>4. CASE InitializeGlobal
  <2>1. \/ /\ stage = "initialize" /\ stage' = "initialize" /\ at' = at + 1
           /\ ~ Initialized(Decl(at))
        \/ /\ stage = "initialize" /\ stage' = "functions" /\ at > Len(source.decls)
    BY <1>4 DEF InitializeGlobal, Failed, Decl
  <2>2. CASE /\ stage = "initialize" /\ stage' = "initialize" /\ at' = at + 1
             /\ ~ Initialized(Decl(at))
    <3>1. \A k \in 1 .. DeclsRead : k < at + 1 <=> k < at \/ k = at
      BY <1>3
    <3>2. QED
      BY <1>2, <2>2, <3>1 DEF Filled
  <2>3. CASE /\ stage = "initialize" /\ stage' = "functions" /\ at > Len(source.decls)
    <3>1. \A k \in 1 .. DeclsRead : k < at
      BY <1>3, <2>3
    <3>2. QED
      BY <1>2, <2>3, <3>1 DEF Filled
  <2>4. QED
    BY <2>1, <2>2, <2>3
<1>5. CASE ~ InitializeGlobal /\ stage = "initialize"
  <2>1. stage' = stage /\ at' = at
    BY <1>5, OthersInitializeNothing
  <2>2. QED
    BY <1>2, <2>1 DEF Filled
<1>6. CASE stage # "initialize"
  <2>1. CASE stage' = "initialize"
    <3>1. at' = 1 /\ stage = "register"
      BY <1>1, <1>6, <2>1 DEF Advances, Goes, Counts, Fails
    <3>2. \A k \in 1 .. DeclsRead : ~ (k < 1)
      BY <1>3
    <3>3. QED
      BY <2>1, <3>1, <3>2 DEF Filled
  <2>2. CASE stage' # "initialize"
    <3>1. stage' \in {"structs", "register"} <=> stage \in {"structs", "register"}
      BY <1>1, <1>6, <2>2 DEF Advances, Goes, Counts, Fails
    <3>2. QED
      BY <1>2, <1>6, <2>2, <3>1 DEF Filled
  <2>3. QED
    BY <2>1, <2>2
<1>7. QED
  BY <1>4, <1>5, <1>6

LEMMA GrownCells ==
  ASSUME NEW image, IsList(image), NEW size \in Nat, size <= MaxOffset,
         Len(image) <= size
  PROVE  /\ Extends(image, Grown(image, size))
         /\ \A i \in Len(image) + 1 .. size : Grown(image, size)[i] = 0
<1> DEFINE old == Len(image)
           more == [i \in 1 .. size - old |-> 0]
           all == image \o more
<1>1. old \in Nat
  BY Lists
<1>2. Uint32(old) = old
  BY <1>1, SmallUint32, MaxOffsetIsNat
<1>3. Grown(image, size) = IF size <= old THEN image ELSE all
  BY <1>2 DEF Grown
<1>4. CASE size <= old
  <2>1. Grown(image, size) = image /\ old + 1 .. size = {}
    BY <1>1, <1>3, <1>4
  <2>2. Extends(image, image)
    BY <1>1 DEF Extends
  <2>3. QED
    BY <2>1, <2>2
<1>5. CASE ~ (size <= old)
  <2>1. size - old \in Nat
    BY <1>1, <1>5
  <2>2. IsList(more) /\ Len(more) = size - old
    BY <2>1, ZeroList
  <2>3. \A j \in 1 .. size - old : more[j] = 0
    OBVIOUS
  <2>4. all = image \o more /\ IsList(more)
    BY <2>2
  <2> HIDE DEF more, all
  <2>5. /\ IsList(all) /\ Len(all) = Len(image) + Len(more)
        /\ \A i \in 1 .. Len(image) : all[i] = image[i]
        /\ \A i \in 1 .. Len(more) : all[Len(image) + i] = more[i]
    BY <2>4, ConcatLists
  <2>6. Extends(image, all)
    BY <1>1, <2>1, <2>2, <2>5 DEF Extends
  <2>7. ASSUME NEW i \in old + 1 .. size
        PROVE  all[i] = 0
    <3>1. i - old \in 1 .. size - old /\ old + (i - old) = i
      BY <1>1
    <3>2. all[old + (i - old)] = more[i - old]
      BY <2>2, <2>5, <3>1
    <3>3. QED
      BY <2>3, <3>1, <3>2
  <2>8. QED
    BY <1>3, <1>5, <2>6, <2>7
<1>6. QED
  BY <1>4, <1>5

(* A new place is zero: its segment ended before it. *)
LEMMA RegisteringValues ==
  ASSUME StageInv, GlobalsInv, GlobalsInv', DataInv, PlacesNamedInv, ValuesInv,
         [Next]_vars, RegisterDeclaration, stage' # "failed",
         source.decls[at].kind = "variable"
  PROVE  ValuesInv'
<1>1. PICK d : d = source.decls[at]
  OBVIOUS
<1>2. /\ stage = "register" /\ stage' = "register" /\ source' = source
      /\ PlaceVariable(d) /\ at \in 1 .. Len(source.decls) /\ d.kind = "variable"
  BY <1>1, SourceLists DEF RegisterDeclaration, RegisterVariable, Failed, StageInv
<1>3. PICK segment : segment = SegmentOf(d)
  OBVIOUS
<1>4. PICK type : type = TypeOf(d.type)
  OBVIOUS
<1>5. PICK offset : offset = AlignUpWrapping(EndOf(segment), type.alignment)
  OBVIOUS
<1>6. PICK end : end = Uint32(offset + type.size)
  OBVIOUS
<1>7. PICK place : place = [name |-> d.name, type |-> type, offset |-> offset]
  OBVIOUS
<1>8. segment \in Segments
  BY <1>3, SegmentsAre
<1>9. /\ places' = [places EXCEPT ![segment] = Append(@, place)]
      /\ images' = IF segment \in DOMAIN images
                   THEN [images EXCEPT ![segment] = Grown(@, end)] ELSE images
      /\ strings' = strings
  BY <1>2, <1>3, <1>4, <1>5, <1>6, <1>7 DEF PlaceVariable
<1>10. /\ DOMAIN places = Segments /\ DOMAIN images = {"data", "const"}
       /\ IsList(images.data) /\ IsList(images.const)
  BY DEF GlobalsInv, DataInv
<1>11. DOMAIN strings = {}
  BY <1>2 DEF ValuesInv, LiteralsInv
<1>12. \A k : ~ Filled(k) /\ ~ Filled(k)'
  BY <1>2 DEF Filled
<1>13. \A s \in Segments \ {segment} : places'[s] = places[s]
  BY <1>8, <1>9, <1>10
<1>14. \A s \in {"data", "const"} \ {segment} : images'[s] = images[s]
  BY <1>8, <1>9, <1>10
<1>15. \A k, s, i : IsPlaceOf(k, s, i)' /\ s \in Segments \ {segment} => IsPlaceOf(k, s, i)
  BY <1>2, <1>13 DEF IsPlaceOf, Decl, SegmentOf
<1>16. ASSUME NEW s \in {"data", "const"} PROVE ContentOf(s)'
  <2> SUFFICES ASSUME HasRoom(places'[s]), NEW i \in 1 .. Len(places'[s])
               PROVE  IsZero(images'[s], places'[s][i])
    BY <1>12 DEF ContentOf, Content
  <2>1. s \in Segments
    BY DEF Segments
  <2>2. ASSUME HasRoom(places[s]), NEW j \in 1 .. Len(places[s])
        PROVE  IsZero(images[s], places[s][j])
    <3>1. ContentOf(s) /\ PlacesNamed
      BY <1>2 DEF ValuesInv, PlacesNamedInv
    <3>2. PICK k \in 1 .. DeclsRead : IsPlaceOf(k, s, j)
      BY <2>1, <2>2, <3>1 DEF PlacesNamed
    <3>3. QED
      BY <1>12, <2>2, <3>1, <3>2 DEF ContentOf, Content
  <2>3. CASE s # segment
    BY <1>13, <1>14, <2>1, <2>2, <2>3
  <2>4. CASE s = segment
    <3>1. PICK list : list = places[s]
      OBVIOUS
    <3>2. PICK longer : longer = Append(list, place)
      OBVIOUS
    <3>3. places'[s] = longer /\ images'[s] = Grown(images[s], end)
      BY <1>9, <1>10, <2>1, <2>4, <3>1, <3>2
    <3>4. TypesLaid(list) /\ TypesLaid(longer) /\ HasRoom(longer) /\ OffsetsLaid(longer)
      BY <2>1, <3>1, <3>3 DEF GlobalsInv, SegmentLaid
    <3>5. PICK n : n = Len(list)
      OBVIOUS
    <3>6. /\ n \in Nat /\ Len(longer) = n + 1 /\ longer[n + 1] = place
          /\ \A j \in 1 .. n : longer[j] = list[j]
      <4>1. IsList(list)
        BY <3>4 DEF TypesLaid
      <4>2. QED
        BY <3>2, <3>5, <4>1, AppendToList, Lists
    <3>7. WellLaid(type) /\ place.type = type /\ place.offset = offset
      <4>1. WellLaid(longer[n + 1].type)
        BY <3>4, <3>6 DEF TypesLaid
      <4>2. QED
        BY <1>7, <3>6, <4>1
    <3>8. /\ EndOfList(longer) = AlignUp(EndOfList(list), type.alignment) + type.size
          /\ EndOfList(list) <= EndOfList(longer)
          /\ EndOfList(list) \in Nat /\ EndOfList(longer) \in Nat
      BY <3>2, <3>4, <3>7, ListLonger, TypesOfList
    <3>9. HasRoom(list)
      BY <3>4, <3>8, MaxOffsetIsNat DEF HasRoom
    <3>10. EndsThere(s, EndOfList(list)) /\ OffsetsLaid(list)
      BY <2>1, <3>1, <3>9 DEF GlobalsInv, SegmentLaid
    <3>11. Len(images[s]) = EndOfList(list) /\ IsList(images[s])
      <4>1. CASE s = "data"
        BY <1>10, <3>10, <4>1 DEF EndsThere
      <4>2. CASE s = "const"
        BY <1>2, <1>10, <3>10, <4>2 DEF EndsThere
      <4>3. QED
        BY <4>1, <4>2
    <3>12. PICK start : start = AlignUp(EndOfList(list), type.alignment)
      OBVIOUS
    <3>13. type.size \in Nat /\ start \in Nat /\ EndOfList(list) <= start
      BY <3>7, <3>8, <3>12, WellLaidType, Aligned DEF IsDescriptor
    <3>14. /\ AlignUpWrapping(EndOfList(list), type.alignment) = start
           /\ Uint32(start + type.size) = start + type.size
      BY <3>4, <3>7, <3>8, <3>12, NextPlace DEF HasRoom
    <3>15. EndOf(segment) = EndOfList(list)
      <4>1. CASE s = "data"
        BY <2>4, <3>10, <4>1 DEF EndsThere, EndOf
      <4>2. CASE s = "const"
        BY <2>4, <3>8, <3>9, <3>11, <4>2, SmallUint32 DEF EndOf, HasRoom
      <4>3. QED
        BY <4>1, <4>2
    <3>16. offset = start /\ end = start + type.size /\ end = EndOfList(longer)
      BY <1>5, <1>6, <3>8, <3>12, <3>14, <3>15
    <3>17. end \in Nat /\ end <= MaxOffset /\ Len(images[s]) <= end
      BY <3>4, <3>8, <3>11, <3>16 DEF HasRoom
    <3>18. /\ Extends(images[s], images'[s])
           /\ \A j \in Len(images[s]) + 1 .. end : images'[s][j] = 0
      BY <3>3, <3>11, <3>17, GrownCells
    <3>19. CASE i \in 1 .. n
      <4>1. LiesIn(list[i], images[s]) /\ longer[i] = list[i]
        BY <3>1, <3>5, <3>6, <3>9, <3>19, PlacesLieIn
      <4>2. SameCells(images[s], images'[s], list[i])
        BY <3>18, <4>1, CellsStay
      <4>3. IsZero(images[s], list[i])
        BY <2>2, <3>1, <3>5, <3>9, <3>19
      <4>4. IsZero(images'[s], list[i])
        BY <4>2, <4>3, ZeroOn
      <4>5. QED
        BY <3>3, <4>1, <4>4
    <3>20. CASE i = n + 1
      <4>1. \A j \in 1 .. type.size : offset + j \in Len(images[s]) + 1 .. end
        BY <3>8, <3>11, <3>13, <3>16
      <4>2. places'[s][i] = place
        BY <3>3, <3>6, <3>20
      <4>3. QED
        BY <3>7, <3>18, <4>1, <4>2 DEF IsZero
    <3>21. i \in 1 .. n \/ i = n + 1
      BY <3>3, <3>6
    <3>22. QED
      BY <3>19, <3>20, <3>21
  <2>5. QED
    BY <2>3, <2>4
<1>17. LiteralsInv'
  BY <1>9, <1>11 DEF LiteralsInv, LiteralsLie
<1>18. QED
  BY <1>16, <1>17 DEF ValuesInv

(* The place that a name is looked up by is the variable's. *)
LEMMA PlaceFound ==
  ASSUME PlacesNamed, NamesInv, GlobalsInv, NEW k \in 1 .. DeclsRead,
         NEW segment \in Segments, NEW i \in 1 .. Len(places[segment]),
         IsPlaceOf(k, segment, i)
  PROVE  PlaceOf(Decl(k).name) = places[segment][i]
<1> DEFINE all == UNION { Range(places[s]) : s \in Segments }
<1>1. \A s \in Segments : DOMAIN places[s] = 1 .. Len(places[s])
  BY Lists DEF GlobalsInv, SegmentLaid, TypesLaid
<1>2. places[segment][i] \in all /\ places[segment][i].name = Decl(k).name
  BY <1>1, Lists DEF IsPlaceOf, Range
<1>3. ASSUME NEW place \in all, place.name = Decl(k).name
      PROVE  place = places[segment][i]
  <2>1. PICK s \in Segments : place \in Range(places[s])
    OBVIOUS
  <2>2. PICK j \in 1 .. Len(places[s]) : place = places[s][j]
    BY <1>1, <2>1 DEF Range
  <2>3. PICK m \in 1 .. DeclsRead : IsPlaceOf(m, s, j)
    BY DEF PlacesNamed
  <2>4. Decl(m).name = Decl(k).name
    BY <1>3, <2>2, <2>3 DEF IsPlaceOf
  <2>5. m = k
    BY <2>4 DEF NamesInv
  <2>6. s = segment
    BY <2>3, <2>5 DEF IsPlaceOf
  <2>7. places[segment][j].name = places[segment][i].name
    BY <1>2, <1>3, <2>2, <2>6
  <2>8. j = i
    BY <2>2, <2>6, <2>7 DEF PlacesNamed
  <2>9. QED
    BY <2>2, <2>6, <2>8
<1> HIDE DEF all
<1>4. PlaceOf(Decl(k).name) = CHOOSE place \in all : place.name = Decl(k).name
  BY DEF PlaceOf, all
<1>5. QED
  BY <1>2, <1>3, <1>4

LEMMA PoolAfterHolds ==
  ASSUME IsList(images.const), NEW initial, IsList(initial.text)
  PROVE  LET more == PoolAfter(initial)
         IN  /\ Extends(images.const, more.image)
             /\ initial.form = "text" => initial.text \in DOMAIN more.at
             /\ \A t \in DOMAIN strings : t \in DOMAIN more.at /\ more.at[t] = strings[t]
             /\ \A from \in Nat :
                  /\ from <= Len(images.const) /\ Len(more.image) <= MaxOffset
                  /\ LiteralsLie(images.const, strings, from)
                  => LiteralsLie(more.image, more.at, from)
<1>1. Pool.image = images.const /\ Pool.at = strings
  BY DEF Pool
<1>2. CASE initial.form = "text"
  <2>1. PoolAfter(initial) = Interned(Pool, initial.text)
    BY <1>2 DEF PoolAfter
  <2>2. IsList(Pool.image)
    BY <1>1
  <2>3. LET more == Interned(Pool, initial.text)
        IN  /\ Extends(Pool.image, more.image)
            /\ initial.text \in DOMAIN more.at
            /\ \A t \in DOMAIN Pool.at : t \in DOMAIN more.at /\ more.at[t] = Pool.at[t]
            /\ \A from \in Nat :
                 /\ from <= Len(Pool.image) /\ Len(more.image) <= MaxOffset
                 /\ LiteralsLie(Pool.image, Pool.at, from)
                 => LiteralsLie(more.image, more.at, from)
    BY <2>2, InternedHolds
  <2>4. QED
    BY <1>1, <2>1, <2>3
<1>3. CASE initial.form # "text"
  <2>1. PoolAfter(initial) = Pool
    BY <1>3 DEF PoolAfter
  <2>2. Extends(images.const, images.const)
    BY Lists DEF Extends
  <2>3. QED
    BY <1>1, <1>3, <2>1, <2>2
<1>4. QED
  BY <1>2, <1>3

(* An initializer fills the bytes of its variable and no others; what it   *)
(* adds to the literals comes behind all globals.                          *)
LEMMA InitializingValues ==
  ASSUME StageInv, SymbolsInv, GlobalsInv, DataInv, PlacesNamedInv, ValuesInv,
         InitializeGlobal, stage' = "initialize", Initialized(source.decls[at])
  PROVE  ValuesInv'
<1>1. PICK last : last = at
  OBVIOUS
<1>2. PICK d : d = source.decls[last]
  OBVIOUS
<1>3. /\ stage = "initialize" /\ at' = at + 1 /\ source' = source /\ places' = places
      /\ Initialize(d) /\ last \in 1 .. Len(source.decls)
  BY <1>1, <1>2, SourceLists DEF InitializeGlobal, Failed, StageInv, Initialize
<1>4. /\ DeclsRead = Len(source.decls) /\ DeclsRead' = DeclsRead /\ DeclsRead \in Nat
      /\ last \in 1 .. DeclsRead /\ last \in Nat
      /\ d = Decl(last) /\ d.kind = "variable" /\ d.initial # NoValue
  BY <1>1, <1>2, <1>3, SourceLists DEF DeclsRead, Decl, Initialized, StageInv
<1>5. PICK initial : initial = d.initial
  OBVIOUS
<1>6. initial.form \in {"text", "number"} /\ IsList(initial.text)
  <2>1. IsSource(source) /\ DOMAIN source.decls = 1 .. Len(source.decls)
    BY SourceLists DEF StageInv
  <2>2. d \in Range(source.decls)
    BY <1>2, <1>3, <2>1 DEF Range
  <2>3. QED
    BY <1>4, <1>5, <2>1, <2>2 DEF IsSource
<1>7. PlacesNamed /\ NamesInv /\ ContentOf("data") /\ ContentOf("const") /\ LiteralsInv
  BY <1>3 DEF PlacesNamedInv, SymbolsInv, ValuesInv
<1>8. PICK segment : segment = SegmentOf(d)
  OBVIOUS
<1>9. segment \in Segments /\ segment \in {"data", "const"}
  BY <1>3, <1>8 DEF Initialize, InitializerAccepted, Segments
<1>10. PICK mine \in 1 .. Len(places[segment]) : IsPlaceOf(last, segment, mine)
  BY <1>4, <1>7, <1>8 DEF PlacesNamed
<1>11. PICK place : place = places[segment][mine]
  OBVIOUS
<1>12. PlaceOf(d.name) = place
  BY <1>4, <1>7, <1>9, <1>10, <1>11, PlaceFound
<1>13. PICK pool : pool = PoolAfter(initial)
  OBVIOUS
<1>14. PICK before : before = ImageToFill(segment, initial)
  OBVIOUS
<1>15. PICK number : number = BitsOf(place.type, initial)
  OBVIOUS
<1>16. PICK filled :
         filled = WrittenTo(before, place.offset, Bytes(number, place.type.size))
  OBVIOUS
<1>17. /\ strings' = pool.at
       /\ images' = [const |-> IF segment = "const" THEN filled ELSE pool.image,
                     data |-> IF segment = "data" THEN filled ELSE images.data]
       /\ ValueAccepted(place.type, initial)
       /\ place.offset + place.type.size <= Len(before)
  BY <1>3, <1>5, <1>8, <1>12, <1>13, <1>14, <1>15, <1>16
     DEF Initialize, InitializerAccepted
<1>18. DOMAIN images = {"data", "const"} /\ IsList(images.data) /\ IsList(images.const)
  BY DEF DataInv
<1>19. /\ Extends(images.const, pool.image)
       /\ initial.form = "text" => initial.text \in DOMAIN strings'
       /\ \A t \in DOMAIN strings : t \in DOMAIN strings' /\ strings'[t] = strings[t]
       /\ \A from \in Nat :
            /\ from <= Len(images.const) /\ Len(pool.image) <= MaxOffset
            /\ LiteralsLie(images.const, strings, from)
            => LiteralsLie(pool.image, strings', from)
  BY <1>6, <1>13, <1>17, <1>18, PoolAfterHolds
<1>20. Extends(images[segment], before) /\ images'[segment] = filled
  <2>1. CASE segment = "data"
    <3>1. before = images.data /\ images'.data = filled
      BY <1>14, <1>17, <2>1 DEF ImageToFill
    <3>2. Extends(images.data, images.data)
      BY <1>18, Lists DEF Extends
    <3>3. QED
      BY <2>1, <3>1, <3>2
  <2>2. CASE segment = "const"
    <3>1. before = pool.image /\ images'.const = filled
      BY <1>13, <1>14, <1>17, <2>2 DEF ImageToFill
    <3>2. QED
      BY <1>19, <2>2, <3>1
  <2>3. QED
    BY <1>9, <2>1, <2>2
<1>21. \A s \in {"data", "const"} \ {segment} : Extends(images[s], images'[s])
  <2>1. CASE segment = "data"
    BY <1>17, <1>19, <2>1
  <2>2. CASE segment = "const"
    <3>1. Extends(images.data, images.data)
      BY <1>18, Lists DEF Extends
    <3>2. QED
      BY <1>17, <2>2, <3>1
  <2>3. QED
    BY <1>9, <2>1, <2>2
<1>22. /\ Filled(last)'
       /\ \A k \in 1 .. DeclsRead : k # last => (Filled(k)' <=> Filled(k))
  <2>1. \A k : Initialized(Decl(k))' <=> Initialized(Decl(k))
    BY <1>3 DEF Decl, Initialized
  <2>2. \A k \in 1 .. DeclsRead : k # last => (k < last + 1 <=> k < last)
    BY <1>4
  <2>3. last < last + 1
    BY <1>4
  <2>4. Initialized(Decl(last))
    BY <1>4 DEF Initialized
  <2>5. QED
    BY <1>1, <1>3, <2>1, <2>2, <2>3, <2>4 DEF Filled
<1>23. \A k \in 1 .. DeclsRead : \A i \in 1 .. Len(places[segment]) :
         IsPlaceOf(k, segment, i) => (k = last <=> i = mine)
  <2> SUFFICES ASSUME NEW k \in 1 .. DeclsRead, NEW i \in 1 .. Len(places[segment]),
                      IsPlaceOf(k, segment, i)
               PROVE  k = last <=> i = mine
    OBVIOUS
  <2>1. ASSUME k = last PROVE i = mine
    <3>1. places[segment][i].name = places[segment][mine].name
      BY <1>10, <2>1 DEF IsPlaceOf
    <3>2. QED
      BY <1>7, <1>9, <3>1 DEF PlacesNamed
  <2>2. ASSUME i = mine PROVE k = last
    <3>1. Decl(k).name = Decl(last).name
      BY <1>10, <2>2 DEF IsPlaceOf
    <3>2. QED
      BY <1>4, <1>7, <3>1 DEF NamesInv
  <2>3. QED
    BY <2>1, <2>2
<1>24. number = IF initial.form = "text" THEN Address(strings'[initial.text])
                ELSE NumberOf(place.type, initial)
  <2>1. CASE initial.form = "text"
    BY <1>13, <1>15, <1>17, <2>1 DEF BitsOf
  <2>2. CASE initial.form = "number"
    BY <1>15, <2>2 DEF BitsOf, NumberOf
  <2>3. QED
    BY <1>6, <2>1, <2>2
<1>25. initial.form = "text" => place.type.size = 4
  BY <1>17 DEF ValueAccepted, Scalar, SizeOf
<1>26. IsList(before)
  BY <1>20 DEF Extends
<1>27. ASSUME HasRoom(places[segment])
       PROVE  /\ Holds(filled, place, initial, strings')
              /\ \A i \in 1 .. Len(places[segment]) :
                   i # mine => SameCells(images[segment], filled, places[segment][i])
  <2>1. /\ \A i \in 1 .. Len(places[segment]) : LiesIn(places[segment][i], images[segment])
        /\ \A i, j \in 1 .. Len(places[segment]) :
             i # j => IsApart(places[segment][i], places[segment][j])
    BY <1>9, <1>27, PlacesLieIn
  <2>2. \A i \in 1 .. Len(places[segment]) : LiesIn(places[segment][i], before)
    <3>1. PICK old, new : old = Len(images[segment]) /\ new = Len(before)
      OBVIOUS
    <3>2. old \in Nat /\ new \in Nat /\ old <= new
      BY <1>20, <3>1, Lists DEF Extends
    <3>3. QED
      BY <2>1, <3>1, <3>2 DEF LiesIn
  <2>3. LiesIn(place, before)
    BY <1>10, <1>11, <2>2
  <2>4. HasBytes(filled, place, number)
    BY <1>16, <1>26, <2>3, WrittenHolds
  <2>5. Holds(filled, place, initial, strings')
    <3>1. CASE initial.form = "text"
      BY <1>19, <1>24, <1>25, <2>4, <3>1 DEF Holds
    <3>2. CASE initial.form # "text"
      BY <1>24, <2>4, <3>2 DEF Holds
    <3>3. QED
      BY <3>1, <3>2
  <2>6. ASSUME NEW i \in 1 .. Len(places[segment]), i # mine
        PROVE  SameCells(images[segment], filled, places[segment][i])
    <3>1. PICK other : other = places[segment][i]
      OBVIOUS
    <3>2. LiesIn(other, before) /\ LiesIn(other, images[segment]) /\ IsApart(place, other)
      BY <1>10, <1>11, <2>1, <2>2, <2>6, <3>1
    <3>3. SameCells(images[segment], before, other)
      BY <1>20, <3>2, CellsStay
    <3>4. SameCells(before, filled, other)
      BY <1>16, <1>26, <2>3, <3>2, WrittenElsewhere
    <3>5. QED
      BY <3>1, <3>3, <3>4 DEF SameCells
  <2>7. QED
    BY <2>5, <2>6
<1>28. ContentOf(segment)'
  <2>1. ASSUME HasRoom(places[segment]), NEW i \in 1 .. Len(places[segment]),
               NEW k \in 1 .. DeclsRead, IsPlaceOf(k, segment, i)
        PROVE  \/ /\ Filled(k)' <=> Filled(k)
                  /\ SameCells(images[segment], images'[segment], places[segment][i])
               \/ /\ Filled(k)'
                  /\ Holds(images'[segment], places[segment][i], Decl(k).initial, strings')
    <3>1. CASE i = mine
      <4>1. k = last
        BY <1>23, <2>1, <3>1
      <4>2. Decl(k).initial = initial
        BY <1>4, <1>5, <4>1
      <4>3. QED
        BY <1>11, <1>20, <1>22, <1>27, <2>1, <3>1, <4>1, <4>2
    <3>2. CASE i # mine
      <4>1. k # last
        BY <1>23, <2>1, <3>2
      <4>2. QED
        BY <1>20, <1>22, <1>27, <2>1, <3>2, <4>1
    <3>3. QED
      BY <3>1, <3>2
  <2>2. ContentOf(segment)
    BY <1>7, <1>9
  <2>3. QED
    BY <1>3, <1>4, <1>19, <2>1, <2>2, ContentKept
<1>29. ASSUME NEW s \in {"data", "const"} \ {segment} PROVE ContentOf(s)'
  <2>1. ContentOf(s) /\ Extends(images[s], images'[s])
    BY <1>7, <1>21
  <2>2. ASSUME NEW i \in 1 .. Len(places[s]), NEW k \in 1 .. DeclsRead, IsPlaceOf(k, s, i)
        PROVE  Filled(k)' <=> Filled(k)
    <3>1. k # last
      BY <1>4, <1>8, <2>2 DEF IsPlaceOf
    <3>2. QED
      BY <1>22, <3>1
  <2>3. QED
    BY <1>3, <1>4, <1>19, <2>1, <2>2, ContentAppended
<1>30. LiteralsInv'
  <2>1. HasRoom(places["const"])' <=> HasRoom(places["const"])
    BY <1>3 DEF HasRoom, EndOfList, TypesOf, Laid, Ends
  <2>2. EndOfList(places["const"])' = EndOfList(places["const"])
    BY <1>3 DEF EndOfList, TypesOf, Laid, Ends
  <2>3. SUFFICES ASSUME HasRoom(places["const"]), Len(images'.const) <= MaxOffset
                 PROVE  LiteralsLie(images'.const, strings', EndOfList(places["const"]))
    BY <1>3, <2>1, <2>2 DEF LiteralsInv
  <2>4. PICK from : from = EndOfList(places["const"])
    OBVIOUS
  <2>5. /\ from \in Nat /\ from <= Len(images.const)
        /\ \A i \in 1 .. Len(places["const"]) :
             places["const"][i].offset + places["const"][i].type.size <= from
    BY <2>3, <2>4, PlacesLieIn
  <2>6. Len(images'.const) = Len(pool.image)
    <3>1. CASE segment = "const"
      <4>1. before = pool.image
        BY <1>13, <1>14, <3>1 DEF ImageToFill
      <4>2. Len(filled) = Len(before)
        BY <1>16, <1>26, WrittenLength
      <4>3. QED
        BY <1>17, <3>1, <4>1, <4>2
    <3>2. CASE segment # "const"
      BY <1>17, <3>2
    <3>3. QED
      BY <3>1, <3>2
  <2>7. Len(pool.image) <= MaxOffset /\ Len(images.const) <= MaxOffset
    <3>1. PICK old, new : old = Len(images.const) /\ new = Len(pool.image)
      OBVIOUS
    <3>2. old \in Nat /\ new \in Nat /\ old <= new
      BY <1>19, <3>1, Lists DEF Extends
    <3>3. new <= MaxOffset
      BY <2>3, <2>6, <3>1
    <3>4. QED
      BY <3>1, <3>2, <3>3, MaxOffsetIsNat
  <2>8. LiteralsLie(images.const, strings, from)
    BY <1>7, <2>3, <2>4, <2>7 DEF LiteralsInv
  <2>9. LiteralsLie(pool.image, strings', from)
    BY <1>19, <2>5, <2>7, <2>8
  <2>10. CASE segment = "const"
    <3>1. before = pool.image
      BY <1>13, <1>14, <2>10 DEF ImageToFill
    <3>2. place.offset + place.type.size <= from
      BY <1>10, <1>11, <2>5, <2>10
    <3>3. LiesIn(place, before)
      <4>1. LiesIn(place, images.const)
        BY <1>10, <1>11, <2>3, <2>10, PlacesLieIn
      <4>2. QED
        BY <1>17, <4>1 DEF LiesIn
    <3>4. LiteralsLie(filled, strings', from)
      BY <1>16, <1>26, <2>5, <2>9, <3>1, <3>2, <3>3, WrittenBefore
    <3>5. QED
      BY <1>17, <2>4, <2>10, <3>4
  <2>11. CASE segment # "const"
    BY <1>17, <2>4, <2>9, <2>11
  <2>12. QED
    BY <2>10, <2>11
<1>31. ContentOf("data")' /\ ContentOf("const")'
  BY <1>9, <1>28, <1>29
<1>32. QED
  BY <1>30, <1>31 DEF ValuesInv

(* Literals of a function body come behind all globals too. *)
LEMMA CompilingValues ==
  ASSUME StageInv, GlobalsInv, DataInv, ValuesInv, [Next]_vars, CompileFunction,
         stage' # "failed"
  PROVE  ValuesInv'
<1>1. PICK body : body = source.functions[at].body
  OBVIOUS
<1>2. /\ stage = "compile" /\ stage' = "compile" /\ Intern(body) /\ source' = source
      /\ at \in 1 .. Len(source.functions)
  BY <1>1, SourceLists DEF CompileFunction, Failed, StageInv
<1>3. IsList(body) /\ \A cell \in Range(body) : cell.op = "text" => IsList(cell.text)
  <2>1. IsSource(source) /\ DOMAIN source.functions = 1 .. Len(source.functions)
    BY SourceLists DEF StageInv
  <2>2. source.functions[at] \in Range(source.functions)
    BY <1>2, <2>1 DEF Range
  <2>3. QED
    BY <1>1, <2>1, <2>2 DEF IsSource
<1>4. PICK pool : pool = PoolWith(body)
  OBVIOUS
<1>5. DOMAIN images = {"data", "const"} /\ IsList(images.data) /\ IsList(images.const)
  BY DEF DataInv
<1>6. /\ images'.const = pool.image /\ images'.data = images.data /\ strings' = pool.at
      /\ places' = places
  BY <1>2, <1>4, <1>5 DEF Intern
<1>7. /\ Extends(images.const, images'.const)
      /\ \A t \in DOMAIN strings : t \in DOMAIN strings' /\ strings'[t] = strings[t]
      /\ \A from \in Nat :
           /\ from <= Len(images.const) /\ Len(images'.const) <= MaxOffset
           /\ LiteralsLie(images.const, strings, from)
           => LiteralsLie(images'.const, strings', from)
  BY <1>3, <1>4, <1>5, <1>6, PoolHolds
<1>8. Extends(images.data, images'.data)
  BY <1>5, <1>6, Lists DEF Extends
<1>9. \A k \in 1 .. DeclsRead : Filled(k)' <=> Filled(k)
  <2>1. ~ (InitializeGlobal /\ stage' = "initialize" /\ Initialized(source.decls[at]))
    BY <1>2
  <2>2. QED
    BY <2>1, FilledStays
<1>10. DeclsRead' = DeclsRead
  BY <1>2 DEF DeclsRead
<1>11. ContentOf("data") /\ ContentOf("const") /\ LiteralsInv
  BY <1>2 DEF ValuesInv
<1>12. ASSUME NEW segment \in {"data", "const"} PROVE ContentOf(segment)'
  <2>1. ContentOf(segment) /\ Extends(images[segment], images'[segment])
    BY <1>7, <1>8, <1>11
  <2>2. QED
    BY <1>2, <1>6, <1>7, <1>9, <1>10, <2>1, ContentAppended
<1>13. LiteralsInv'
  <2>1. HasRoom(places["const"])' <=> HasRoom(places["const"])
    BY <1>6 DEF HasRoom, EndOfList, TypesOf, Laid, Ends
  <2>2. EndOfList(places["const"])' = EndOfList(places["const"])
    BY <1>6 DEF EndOfList, TypesOf, Laid, Ends
  <2>3. SUFFICES ASSUME HasRoom(places["const"]), Len(images'.const) <= MaxOffset
                 PROVE  LiteralsLie(images'.const, strings', EndOfList(places["const"]))
    BY <1>2, <2>1, <2>2 DEF LiteralsInv
  <2>4. PICK from : from = EndOfList(places["const"])
    OBVIOUS
  <2>5. from \in Nat /\ from <= Len(images.const)
    BY <2>3, <2>4, PlacesLieIn
  <2>6. Len(images.const) <= MaxOffset
    <3>1. PICK old, new : old = Len(images.const) /\ new = Len(images'.const)
      OBVIOUS
    <3>2. old \in Nat /\ new \in Nat /\ old <= new /\ new <= MaxOffset
      BY <1>7, <2>3, <3>1, Lists DEF Extends
    <3>3. QED
      BY <3>1, <3>2, MaxOffsetIsNat
  <2>7. LiteralsLie(images.const, strings, from)
    BY <1>11, <2>3, <2>4, <2>6 DEF LiteralsInv
  <2>8. QED
    BY <1>7, <2>3, <2>4, <2>5, <2>7
<1>14. QED
  BY <1>12, <1>13 DEF ValuesInv

(* Steps that leave the layout alone. *)
LEMMA QuietValues ==
  ASSUME StageInv, GlobalsInv, DataInv, ValuesInv, [Next]_vars, stage # "failed",
         stage' # "failed", places' = places, images' = images, strings' = strings,
         ~ (InitializeGlobal /\ stage' = "initialize" /\ Initialized(source.decls[at])),
         \A k \in 1 .. DeclsRead' : Decl(k).kind = "variable" => k \in 1 .. DeclsRead
  PROVE  ValuesInv'
<1>1. source' = source /\ Advances
  BY NextAdvances DEF StageInv
<1>2. \A k \in 1 .. DeclsRead : Filled(k)' <=> Filled(k)
  BY FilledStays
<1>3. ContentOf("data") /\ ContentOf("const") /\ LiteralsInv
  BY DEF ValuesInv
<1>4. ASSUME NEW segment \in {"data", "const"} PROVE ContentOf(segment)'
  <2>1. IsList(images[segment])
    BY DEF DataInv
  <2>2. ContentOf(segment) /\ Extends(images[segment], images'[segment])
    BY <1>3, <2>1, Lists DEF Extends
  <2>3. QED
    BY <1>1, <1>2, <2>2, ContentAppended
<1>5. LiteralsInv'
  <2>1. stage' \in {"structs", "register"} => stage \in {"structs", "register"}
    BY <1>1 DEF Advances, Goes, Counts, Fails
  <2>2. HasRoom(places["const"])' <=> HasRoom(places["const"])
    BY DEF HasRoom, EndOfList, TypesOf, Laid, Ends
  <2>3. EndOfList(places["const"])' = EndOfList(places["const"])
    BY DEF EndOfList, TypesOf, Laid, Ends
  <2>4. QED
    BY <1>3, <2>1, <2>2, <2>3 DEF LiteralsInv
<1>6. QED
  BY <1>4, <1>5 DEF ValuesInv

LEMMA ValuesStep ==
  ASSUME StageInv, SymbolsInv, GlobalsInv, GlobalsInv', DataInv, PlacesNamedInv, ValuesInv,
         [Next]_vars
  PROVE  ValuesInv'
<1> SUFFICES ASSUME stage' # "failed" PROVE ValuesInv'
  BY DEF ValuesInv
<1>1. stage # "failed" /\ source' = source
  BY NextAdvances DEF StageInv, Advances, Goes, Counts, Fails
<1>2. CASE RegisterDeclaration /\ source.decls[at].kind = "variable"
  BY <1>2, RegisteringValues
<1>3. CASE RegisterDeclaration /\ source.decls[at].kind # "variable"
  <2>1. /\ stage = "register" /\ stage' = "register" /\ at' = at + 1
        /\ places' = places /\ images' = images /\ strings' = strings
    BY <1>3 DEF RegisterDeclaration, RegisterExtern, Failed, layoutVars
  <2>2. \A k \in 1 .. DeclsRead' : Decl(k).kind = "variable" => k \in 1 .. DeclsRead
    <3>1. at \in Nat \ {0} /\ DeclsRead = at - 1 /\ DeclsRead' = at
      BY <2>1 DEF StageInv, DeclsRead
    <3>2. \A k \in 1 .. at : k = at \/ k \in 1 .. at - 1
      BY <3>1
    <3>3. QED
      BY <1>3, <3>1, <3>2 DEF Decl
  <2>3. QED
    BY <1>1, <2>1, <2>2, QuietValues
<1>4. CASE InitializeGlobal /\ stage' = "initialize" /\ Initialized(source.decls[at])
  BY <1>4, InitializingValues
<1>5. CASE /\ InitializeGlobal
           /\ ~ (stage' = "initialize" /\ Initialized(source.decls[at]))
  <2>1. places' = places /\ images' = images /\ strings' = strings
    BY <1>5 DEF InitializeGlobal, Failed, layoutVars
  <2>2. ~ RegisterDeclaration
    BY <1>5 DEF InitializeGlobal, RegisterDeclaration
  <2>3. DeclsRead' = DeclsRead
    BY <2>2, DeclsReadStay
  <2>4. QED
    BY <1>1, <1>5, <2>1, <2>3, QuietValues
<1>6. CASE CompileFunction
  BY <1>6, CompilingValues
<1>7. CASE ~ RegisterDeclaration /\ ~ InitializeGlobal /\ ~ CompileFunction
  <2>1. places' = places /\ images' = images /\ strings' = strings
    BY <1>7, PlacesStay, ImagesStay
  <2>2. DeclsRead' = DeclsRead
    BY <1>7, DeclsReadStay
  <2>3. QED
    BY <1>1, <1>7, <2>1, <2>2, QuietValues
<1>8. QED
  BY <1>2, <1>3, <1>4, <1>5, <1>6, <1>7

(* A program carries the images as they are when it is linked. *)
LinkedImages ==
  stage = "linked" => linked.const = images.const /\ linked.data = images.data

LEMMA LinkedImagesStep ==
  ASSUME StageInv, TablesInv, LinkedImages, [Next]_vars
  PROVE  LinkedImages'
<1>1. CASE stage = "linked"
  <2>1. UNCHANGED vars
    BY <1>1, LinkedIsLast
  <2>2. QED
    BY <2>1 DEF LinkedImages, vars, layoutVars
<1>2. CASE stage # "linked" /\ EndLink
  <2>1. DOMAIN linked = {"text", "entryPoint", "functions", "paramKinds", "paramOffsets",
                         "frameSize", "frameByteSize", "index", "const", "data",
                         "dataSize", "bssSize"}
    BY <1>2 DEF EndLink, TablesInv, DescribedUpTo
  <2>2. QED
    BY <1>2, <2>1 DEF EndLink, LinkedImages, Failed, layoutVars
<1>3. CASE stage # "linked" /\ LinkFunction
  BY <1>3 DEF LinkFunction, LinkedImages, Failed
<1>4. CASE stage # "linked" /\ EndTables
  BY <1>4 DEF EndTables, LinkedImages
<1>5. CASE stage # "linked" /\ PatchCall
  BY <1>5 DEF PatchCall, LinkedImages, Failed
<1>6. CASE stage # "linked" /\ ~ LinkFunction /\ ~ EndTables /\ ~ PatchCall /\ ~ EndLink
  BY <1>6, TablesStay DEF LinkedImages
<1>7. QED
  BY <1>1, <1>2, <1>3, <1>4, <1>5, <1>6

LEMMA ValuesInitially == Init => PlacesNamedInv /\ ValuesInv /\ LinkedImages
<1> SUFFICES ASSUME Init PROVE PlacesNamedInv /\ ValuesInv /\ LinkedImages
  OBVIOUS
<1>1. stage = "structs" /\ LayoutInit
  BY DEF Init
<1>2. /\ \A segment \in Segments : places[segment] = << >>
      /\ images.const = << >> /\ DOMAIN strings = {}
  BY <1>1 DEF LayoutInit
<1>3. Len(<< >>) = 0 /\ DeclsRead = 0
  BY <1>1, EmptyList DEF DeclsRead
<1>4. PlacesNamedInv
  BY <1>2, <1>3 DEF PlacesNamedInv, PlacesNamed
<1>5. ContentOf("data") /\ ContentOf("const")
  BY <1>3 DEF ContentOf
<1>6. LiteralsInv
  BY <1>2 DEF LiteralsInv, LiteralsLie
<1>7. QED
  BY <1>1, <1>4, <1>5, <1>6 DEF ValuesInv, LinkedImages

LEMMA ValuesInvariant == Spec => [](PlacesNamedInv /\ ValuesInv /\ LinkedImages)
<1> DEFINE All == PlacesNamedInv /\ ValuesInv /\ LinkedImages
<1>1. /\ Inv /\ DataSound /\ GlobalsInv /\ GlobalsInv' /\ All /\ [Next]_vars
      => All'
  BY PlacesNamedStep, ValuesStep, LinkedImagesStep DEF Inv, DataSound
<1>2. Init => All
  BY ValuesInitially
<1> HIDE DEF All
<1>3. Spec => []All
  BY <1>1, <1>2, Invariant, DataSoundInvariant, GlobalsInvariant, PTL DEF Spec
<1>4. QED
  BY <1>3 DEF All

(* Four bytes hold the address of a literal, and give its place back. *)
LEMMA AddressTells ==
  ASSUME NEW offset \in Nat, offset < AddressSpace, NEW bytes, Len(bytes) = 4,
         \A i \in 1 .. 4 : bytes[i] = Bytes(Address(offset), 4)[i]
  PROVE  /\ Number(bytes)[4] \div AddressSpace = ConstSegment
         /\ Number(bytes)[4] % AddressSpace = offset
<1>1. PICK space : space = AddressSpace
  OBVIOUS
<1>2. space \in Nat /\ space > 0 /\ offset < space /\ 5 * space <= MaxOffset + 1
      /\ MaxOffset + 1 \in Nat
  BY <1>1, AddressSpaceFits, MaxOffsetIsNat
<1>3. offset % space = offset
  BY <1>2
<1>4. PICK number : number = Address(offset)
  OBVIOUS
<1>5. number = 4 * space + offset
  BY <1>1, <1>3, <1>4 DEF Address, ConstSegment
<1>6. Powers(4)[4] = MaxOffset + 1
  <2>1. PICK p : p = Powers(4)
    OBVIOUS
  <2>2. p[0] = 1 /\ \A i \in 1 .. 4 : p[i] = ByteBase * p[i - 1]
    BY <2>1, PowersByStep
  <2>3. /\ p[1] = ByteBase * p[0] /\ p[2] = ByteBase * p[1]
        /\ p[3] = ByteBase * p[2] /\ p[4] = ByteBase * p[3]
    <3>1. p[1] = ByteBase * p[1 - 1] /\ p[2] = ByteBase * p[2 - 1]
          /\ p[3] = ByteBase * p[3 - 1] /\ p[4] = ByteBase * p[4 - 1]
      BY <2>2
    <3>2. QED
      BY <3>1
  <2>4. ByteBase \in Nat
    BY LayoutAssumption
  <2>5. p[1] = ByteBase
    BY <2>2, <2>3, <2>4
  <2>6. p[3] = AddressSpace
    <3>1. p[3] = ByteBase * (ByteBase * ByteBase)
      BY <2>3, <2>5
    <3>2. ByteBase * (ByteBase * ByteBase) = ByteBase * ByteBase * ByteBase
      BY <2>4
    <3>3. QED
      BY <3>1, <3>2 DEF AddressSpace
  <2>7. p[4] = ByteBase * AddressSpace
    BY <2>3, <2>6
  <2>8. ByteBase * AddressSpace = AddressSpace * ByteBase
    BY <1>1, <1>2, <2>4
  <2>9. QED
    BY <1>1, <1>2, <2>1, <2>4, <2>7, <2>8 DEF MaxOffset
<1>7. PICK bits : bits = Number(bytes)[4]
  OBVIOUS
<1>8. bits = number % (MaxOffset + 1)
  <2>1. number \in Int
    BY <1>2, <1>5
  <2>2. Number(bytes)[4] = number % Powers(4)[4]
    <3>1. PICK size : size = 4
      OBVIOUS
    <3>2. /\ size \in Nat /\ Len(bytes) = size
          /\ \A i \in 1 .. size : bytes[i] = Bytes(number, size)[i]
      BY <1>4, <3>1
    <3>3. Number(bytes)[size] = number % Powers(size)[size]
      BY <2>1, <3>2, BytesTell
    <3>4. QED
      BY <3>1, <3>3
  <2>3. QED
    BY <1>6, <1>7, <2>2
<1>9. bits = number
  <2>1. PICK whole : whole = MaxOffset + 1
    OBVIOUS
  <2>2. number \in Nat /\ whole \in Nat /\ number < whole
    BY <1>2, <1>5, <2>1
  <2>3. number % whole = number
    BY <2>2
  <2>4. QED
    BY <1>8, <2>1, <2>3
<1>10. bits \div space = 4 /\ bits % space = offset
  BY <1>2, <1>5, <1>9, OneDivision
<1>11. QED
  BY <1>1, <1>7, <1>10 DEF ConstSegment

(* What a global's bytes hold is the value that is read from them. *)
LEMMA HeldIsRead ==
  ASSUME NEW image, IsList(image), NEW place, LiesIn(place, image), NEW initial,
         initial.number \in Int, Holds(image, place, initial, strings),
         linked.const = images.const, IsList(images.const), NEW from,
         initial.form = "text" =>
           /\ Len(images.const) <= AddressSpace
           /\ LiteralsLie(images.const, strings, from)
  PROVE  HoldsValue(image, place, initial)
<1>1. PICK size : size = place.type.size
  OBVIOUS
<1>2. PICK offset : offset = place.offset
  OBVIOUS
<1>3. size \in Nat /\ offset \in Nat /\ offset + size <= Len(image)
  BY <1>1, <1>2 DEF LiesIn
<1>4. PICK bytes : bytes = SubSeq(image, offset + 1, offset + size)
  OBVIOUS
<1>5. Len(bytes) = size /\ \A i \in 1 .. size : bytes[i] = image[offset + i]
  BY <1>3, <1>4, PartList
<1>6. PICK bits : bits = Number(bytes)[size]
  OBVIOUS
<1>7. CASE initial.form = "text"
  <2>1. PICK start : start = strings[initial.text]
    OBVIOUS
  <2>2. size = 4 /\ initial.text \in DOMAIN strings /\ HasBytes(image, place, Address(start))
    BY <1>1, <1>7, <2>1 DEF Holds
  <2>3. TextAt(images.const, start, initial.text)
    BY <1>7, <2>1, <2>2 DEF LiteralsLie
  <2>4. start \in Nat /\ start < AddressSpace
    <3>1. PICK length, all : length = Len(initial.text) /\ all = Len(images.const)
      OBVIOUS
    <3>2. length \in Nat /\ all \in Nat /\ start \in Nat /\ start + length < all
      BY <2>3, <3>1, Lists DEF TextAt
    <3>3. all <= AddressSpace /\ AddressSpace \in Nat
      BY <1>7, <3>1, AddressSpaceFits
    <3>4. QED
      BY <3>2, <3>3
  <2>5. \A i \in 1 .. 4 : bytes[i] = Bytes(Address(start), 4)[i]
    BY <1>1, <1>2, <1>5, <2>2 DEF HasBytes
  <2>6. bits \div AddressSpace = ConstSegment /\ bits % AddressSpace = start
    BY <1>5, <1>6, <2>2, <2>4, <2>5, AddressTells
  <2>7. Reads(images.const, start, initial.text)
    BY <2>3, TextIsRead
  <2>8. QED
    BY <1>1, <1>2, <1>4, <1>6, <1>7, <2>6, <2>7 DEF HoldsValue
<1>8. CASE initial.form # "text"
  <2>1. PICK number : number = NumberOf(place.type, initial)
    OBVIOUS
  <2>2. number \in Int
    BY <2>1 DEF NumberOf
  <2>3. HasBytes(image, place, number)
    BY <1>8, <2>1 DEF Holds
  <2>4. \A i \in 1 .. size : bytes[i] = Bytes(number, size)[i]
    BY <1>1, <1>2, <1>5, <2>3 DEF HasBytes
  <2>5. bits = number % Powers(size)[size]
    BY <1>3, <1>5, <1>6, <2>2, <2>4, BytesTell
  <2>6. QED
    BY <1>1, <1>2, <1>4, <1>6, <1>8, <2>1, <2>5 DEF HoldsValue, NumberOf
<1>9. QED
  BY <1>7, <1>8

LEMMA ValuesLinked ==
  ASSUME StageInv, SymbolsInv, GlobalsInv, DataInv, PlacesNamedInv, ValuesInv, LinkedImages
  PROVE  InitialValuesHold
<1> SUFFICES ASSUME stage = "linked", NEW d \in Variables,
                    SegmentOf(d) \in {"data", "const"}, Roomy(SegmentOf(d))
             PROVE  IF d.initial = NoValue
                    THEN IsZero(linked[SegmentOf(d)], PlaceOf(d.name))
                    ELSE \/ d.initial.form = "text" /\ ~ Addressable
                         \/ HoldsValue(linked[SegmentOf(d)], PlaceOf(d.name), d.initial)
  BY DEF InitialValuesHold
<1>1. /\ IsSource(source) /\ DOMAIN source.decls = 1 .. Len(source.decls)
      /\ DeclsRead = Len(source.decls)
  BY SourceLists DEF StageInv, DeclsRead
<1>2. d \in Range(source.decls) /\ d.kind = "variable"
  BY DEF Variables
<1>3. PICK k \in 1 .. DeclsRead : Decl(k) = d
  BY <1>1, <1>2 DEF Range, Decl
<1>4. PlacesNamed /\ NamesInv /\ ContentOf("data") /\ ContentOf("const") /\ LiteralsInv
  BY DEF PlacesNamedInv, SymbolsInv, ValuesInv
<1>5. PICK segment : segment = SegmentOf(d)
  OBVIOUS
<1>6. segment \in {"data", "const"} /\ segment \in Segments
  BY <1>5 DEF Segments
<1>7. PICK i \in 1 .. Len(places[segment]) : IsPlaceOf(k, segment, i)
  BY <1>2, <1>3, <1>4, <1>5 DEF PlacesNamed
<1>8. PICK place : place = places[segment][i]
  OBVIOUS
<1>9. PlaceOf(d.name) = place
  BY <1>3, <1>4, <1>6, <1>7, <1>8, PlaceFound
<1>10. \A s \in {"data", "const"} : Roomy(s) => HasRoom(places[s])
  BY DEF Roomy, HasRoom, EndOfList, TypesIn, TypesOf
<1>11. PICK image : image = images[segment]
  OBVIOUS
<1>12. linked[segment] = image /\ linked.const = images.const
  BY <1>6, <1>11 DEF LinkedImages
<1>13. IsList(image) /\ IsList(images.const)
  BY <1>6, <1>11 DEF DataInv
<1>14. HasRoom(places[segment])
  BY <1>5, <1>6, <1>10
<1>15. LiesIn(place, image)
  BY <1>6, <1>7, <1>8, <1>11, <1>14, PlacesLieIn
<1>16. Content(k, image, place)
  BY <1>4, <1>6, <1>7, <1>8, <1>11, <1>14 DEF ContentOf
<1>17. Filled(k) <=> d.initial # NoValue
  BY <1>2, <1>3 DEF Filled, Initialized
<1>18. CASE d.initial = NoValue
  BY <1>5, <1>9, <1>12, <1>16, <1>17, <1>18 DEF Content
<1>19. CASE d.initial # NoValue
  <2>1. PICK initial : initial = d.initial
    OBVIOUS
  <2>2. initial.number \in Int
    BY <1>1, <1>2, <1>19, <2>1 DEF IsSource
  <2>3. Holds(image, place, initial, strings)
    BY <1>3, <1>16, <1>17, <1>19, <2>1 DEF Content
  <2>4. SUFFICES ASSUME initial.form = "text" => Addressable
                 PROVE  HoldsValue(image, place, initial)
    BY <1>5, <1>9, <1>12, <1>19, <2>1
  <2>5. PICK from : from = EndOfList(places["const"])
    OBVIOUS
  <2>6. initial.form = "text" =>
          /\ Len(images.const) <= AddressSpace
          /\ LiteralsLie(images.const, strings, from)
    <3>1. Addressable => HasRoom(places["const"]) /\ Len(images.const) <= AddressSpace
      BY <1>10, <1>12 DEF Addressable
    <3>2. Len(images.const) <= AddressSpace => Len(images.const) <= MaxOffset
      <4>1. PICK length : length = Len(images.const)
        OBVIOUS
      <4>2. length \in Nat
        BY <1>13, <4>1, Lists
      <4>3. QED
        BY <4>1, <4>2, AddressSpaceFits, MaxOffsetIsNat
    <3>3. QED
      BY <1>4, <2>4, <2>5, <3>1, <3>2 DEF LiteralsInv
  <2>7. QED
    BY <1>12, <1>13, <1>15, <2>2, <2>3, <2>6, HeldIsRead
<1>20. QED
  BY <1>18, <1>19

(* LANGUAGE.md 187, 195, 368; cova/compile.go and cova/link.go: whatever   *)
(* the program and however many its globals and literals, each initialized *)
(* global of a linked program has the value written for it - a number, or  *)
(* the address of a literal that lies whole in the const image - and the   *)
(* other constants are zero.                                               *)
THEOREM ValuesAreCarried == Spec => []InitialValuesHold
<1>1. /\ Inv /\ DataSound /\ GlobalsInv /\ PlacesNamedInv /\ ValuesInv /\ LinkedImages
      => InitialValuesHold
  BY ValuesLinked DEF Inv, DataSound
<1>2. QED
  BY <1>1, Invariant, DataSoundInvariant, GlobalsInvariant, ValuesInvariant, PTL

-----------------------------------------------------------------------------
(* The part that steps lead to, and the way that ends at it.               *)

LEMMA PartsByStep ==
  ASSUME NEW whole, NEW steps, Len(steps) \in Nat
  PROVE  LET part == PartsAlong(whole, steps)
         IN  /\ part[0] = whole
             /\ \A i \in 1 .. Len(steps) : part[i] = PartAt(part[i - 1], steps[i])
<1> DEFINE n == Len(steps)
           More(i, part) ==
             CHOOSE next \in { PartAt(before, steps[i]) : before \in {part} } : TRUE
           Is(f, m) == f = [i \in 0 .. m |-> IF i = 0 THEN whole ELSE More(i, f[i - 1])]
           T == { m \in 0 .. n : \E f : Is(f, m) }
<1>0. \A i, part : More(i, part) = PartAt(part, steps[i])
  <2> TAKE i, part
  <2>1. { PartAt(before, steps[i]) : before \in {part} } = {PartAt(part, steps[i])}
    OBVIOUS
  <2>2. QED
    BY <2>1
<1> HIDE DEF More
<1>1. \E f : Is(f, 0)
  <2>1. Is([i \in 0 .. 0 |-> whole], 0)
    OBVIOUS
  <2>2. QED
    BY <2>1, Zenon
<1>2. ASSUME NEW m \in 1 .. n, NEW f, Is(f, m - 1)
      PROVE  \E g : Is(g, m)
  <2> DEFINE g == [i \in 0 .. m |-> IF i = m THEN More(m, f[m - 1]) ELSE f[i]]
  <2>1. \A i \in 0 .. m - 1 : g[i] = f[i]
    OBVIOUS
  <2>2. \A i \in 0 .. m - 1 : f[i] = IF i = 0 THEN whole ELSE More(i, f[i - 1])
    BY <1>2
  <2>3. \A i \in 0 .. m : g[i] = IF i = 0 THEN whole ELSE More(i, g[i - 1])
    BY <2>1, <2>2
  <2>4. g = [i \in 0 .. m |-> IF i = 0 THEN whole ELSE More(i, g[i - 1])]
    BY <2>3
  <2> HIDE DEF g
  <2>5. QED
    BY <2>4, Zenon
<1> HIDE DEF Is
<1>3. 0 \in T /\ \A m \in 1 .. n : m - 1 \in T => m \in T
  BY <1>1, <1>2
<1>4. n \in T
  <2> HIDE DEF T
  <2>1. 0 .. n \subseteq T
    BY <1>3, CountingUp
  <2>2. QED
    BY <2>1
<1>5. Is(PartsAlong(whole, steps), n)
  <2>1. \E f : Is(f, n)
    BY <1>4
  <2>2. PartsAlong(whole, steps) = CHOOSE f : Is(f, n)
    BY Zenon DEF PartsAlong, Is, More
  <2>3. QED
    BY <2>1, <2>2, Zenon
<1> DEFINE part == PartsAlong(whole, steps)
<1>6. \A i \in 0 .. n : part[i] = IF i = 0 THEN whole ELSE More(i, part[i - 1])
  BY <1>5 DEF Is
<1> HIDE DEF part
<1>7. part[0] = whole /\ \A i \in 1 .. n : part[i] = More(i, part[i - 1])
  BY <1>6
<1>8. QED
  BY <1>0, <1>7 DEF part

LEMMA StepNotRefused ==
  ASSUME NEW part, "ok" \in DOMAIN part, NEW step
  PROVE  LET next == PartAt(part, step)
         IN  /\ "ok" \in DOMAIN next
             /\ next.ok => part.ok /\ ~ StepRefused(part.type, step)
<1>1. CASE ~ part.ok \/ StepRefused(part.type, step)
  <2>1. PartAt(part, step) = [part EXCEPT !.ok = FALSE]
    BY <1>1 DEF PartAt
  <2>2. QED
    BY <2>1
<1>2. CASE part.ok /\ ~ StepRefused(part.type, step) /\ step.by = "member"
  <2>1. PartAt(part, step) = MemberAt(part, step.field)
    BY <1>2 DEF PartAt
  <2>2. QED
    BY <1>2, <2>1 DEF MemberAt
<1>3. CASE part.ok /\ ~ StepRefused(part.type, step) /\ step.by # "member"
  <2>1. PartAt(part, step) = ItemAt(part, step.item)
    BY <1>3 DEF PartAt
  <2>2. QED
    BY <1>3, <2>1 DEF ItemAt
<1>4. QED
  BY <1>1, <1>2, <1>3

(* No step on the way to a part was refused. *)
LEMMA NoneRefused ==
  ASSUME NEW whole, "ok" \in DOMAIN whole, NEW steps, Len(steps) \in Nat,
         PartThrough(whole, steps).ok
  PROVE  LET part == PartsAlong(whole, steps)
         IN  /\ whole.ok
             /\ \A i \in 1 .. Len(steps) : ~ StepRefused(part[i - 1].type, steps[i])
<1> DEFINE n == Len(steps)
           part == PartsAlong(whole, steps)
           T == { i \in 0 .. n :
                    /\ "ok" \in DOMAIN part[i]
                    /\ part[i].ok =>
                         /\ whole.ok
                         /\ \A j \in 1 .. i : ~ StepRefused(part[j - 1].type, steps[j]) }
<1>1. part[0] = whole /\ \A i \in 1 .. n : part[i] = PartAt(part[i - 1], steps[i])
  BY PartsByStep
<1>2. part[n].ok
  BY DEF PartThrough
<1> HIDE DEF part
<1>3. 0 \in T
  BY <1>1
<1>4. ASSUME NEW i \in 1 .. n, i - 1 \in T
      PROVE  i \in T
  <2>1. "ok" \in DOMAIN part[i - 1] /\ part[i] = PartAt(part[i - 1], steps[i])
    BY <1>1, <1>4
  <2>2. /\ "ok" \in DOMAIN part[i]
        /\ part[i].ok => part[i - 1].ok /\ ~ StepRefused(part[i - 1].type, steps[i])
    BY <2>1, StepNotRefused
  <2>3. \A j \in 1 .. i : j = i \/ j \in 1 .. i - 1
    OBVIOUS
  <2>4. QED
    BY <1>4, <2>2, <2>3
<1> HIDE DEF T
<1>5. 0 .. n \subseteq T
  BY <1>3, <1>4, CountingUp
<1>6. n \in T
  BY <1>5
<1>7. QED
  BY <1>2, <1>6 DEF T, part

IsStep(step) == step \in {Member(step.field), Item(step.item)}

LEMMA StepLeadsInto ==
  ASSUME NEW type, NEW step, IsStep(step), ~ StepRefused(type, step)
  PROVE  IsAggregate(type) /\ step \in StepsInto(type)
<1>1. CASE step = Member(step.field)
  <2>1. step.by = "member"
    BY <1>1 DEF Member
  <2>2. type.form = "struct" /\ \E f \in Range(type.fields) : f.name = step.field
    BY <2>1 DEF StepRefused
  <2>3. QED
    BY <1>1, <2>2 DEF IsAggregate, StepsInto
<1>2. CASE step = Item(step.item)
  <2>0. PICK i : step = Item(i)
    BY <1>2
  <2>1. step.by = "index"
    BY <2>0 DEF Item
  <2>2. type.form = "array" /\ step.item \in 0 .. type.count - 1
    BY <2>1 DEF StepRefused
  <2>3. QED
    BY <1>2, <2>2 DEF IsAggregate, StepsInto
<1>3. QED
  BY <1>1, <1>2 DEF IsStep

(* The first j of these steps, behind a name. *)
AgreesUpTo(trail, steps, j) ==
  Len(trail) = j + 1 /\ \A i \in 1 .. j : trail[i + 1] = steps[i]

IsPathFrom(trail, name) == IsList(trail) /\ Len(trail) >= 1 /\ trail[1] = name

LEMMA PathLonger ==
  ASSUME NEW trail, NEW name, IsPathFrom(trail, name), NEW step, NEW steps
  PROVE  LET longer == Append(trail, step)
         IN  /\ IsPathFrom(longer, name)
             /\ \A j \in Nat : AgreesUpTo(longer, steps, j) =>
                  j >= 1 /\ step = steps[j] /\ AgreesUpTo(trail, steps, j - 1)
             /\ \A j \in Nat : AgreesUpTo(trail, steps, j) /\ step = steps[j + 1] =>
                  AgreesUpTo(longer, steps, j + 1)
<1> DEFINE longer == Append(trail, step)
<1>1. PICK length : length = Len(trail)
  OBVIOUS
<1>2. IsList(trail) /\ length \in Nat /\ length >= 1 /\ trail[1] = name
  BY <1>1, Lists DEF IsPathFrom
<1>3. /\ IsList(longer) /\ Len(longer) = length + 1
      /\ \A i \in 1 .. length : longer[i] = trail[i]
      /\ longer[length + 1] = step
  BY <1>1, <1>2, AppendToList
<1> HIDE DEF longer
<1>4. IsPathFrom(longer, name)
  BY <1>2, <1>3 DEF IsPathFrom
<1>5. ASSUME NEW j \in Nat, AgreesUpTo(longer, steps, j)
      PROVE  j >= 1 /\ step = steps[j] /\ AgreesUpTo(trail, steps, j - 1)
  <2>1. j = length /\ \A i \in 1 .. j : longer[i + 1] = steps[i]
    BY <1>2, <1>3, <1>5 DEF AgreesUpTo
  <2>2. \A i \in 1 .. j - 1 : trail[i + 1] = steps[i]
    BY <1>2, <1>3, <2>1
  <2>3. Len(trail) = (j - 1) + 1
    BY <1>1, <1>2, <2>1
  <2>4. QED
    BY <1>2, <1>3, <2>1, <2>2, <2>3 DEF AgreesUpTo
<1>6. ASSUME NEW j \in Nat, AgreesUpTo(trail, steps, j), step = steps[j + 1]
      PROVE  AgreesUpTo(longer, steps, j + 1)
  <2>1. j + 1 = length /\ \A i \in 1 .. j : trail[i + 1] = steps[i]
    BY <1>1, <1>6 DEF AgreesUpTo
  <2>2. \A i \in 1 .. j + 1 : longer[i + 1] = steps[i]
    BY <1>2, <1>3, <1>6, <2>1
  <2>3. QED
    BY <1>3, <2>1, <2>2 DEF AgreesUpTo
<1>7. QED
  BY <1>4, <1>5, <1>6 DEF longer

LEMMA PathBegins ==
  ASSUME NEW name, NEW steps
  PROVE  IsPathFrom(<< name >>, name) /\ AgreesUpTo(<< name >>, steps, 0)
BY SingleList DEF IsPathFrom, AgreesUpTo

(* The steps of a way say which part is at its end. *)
LEMMA WaysLead ==
  ASSUME NEW place, NEW segment, NEW steps, Len(steps) \in Nat,
         NEW depth \in 0 .. MaxDepth, NEW way \in WaysInto(place, segment)[depth]
  PROVE  /\ IsPathFrom(way.path, place.name)
         /\ \A j \in 0 .. Len(steps) : AgreesUpTo(way.path, steps, j) =>
              way.part =
                PartsAlong(PartOf(segment, place.offset, place.type), steps)[j]
<1> DEFINE start == PartOf(segment, place.offset, place.type)
           part == PartsAlong(start, steps)
           ways == WaysInto(place, segment)
           n == Len(steps)
           Good(one) == /\ IsPathFrom(one.path, place.name)
                        /\ \A j \in 0 .. n :
                             AgreesUpTo(one.path, steps, j) => one.part = part[j]
           T == { d \in 0 .. MaxDepth : \A one \in ways[d] : Good(one) }
<1>0. MaxDepth \in Nat
  BY DEF MaxDepth
<1>1. part[0] = start /\ \A i \in 1 .. n : part[i] = PartAt(part[i - 1], steps[i])
  BY PartsByStep
<1>2. /\ ways[0] = { [path |-> << place.name >>, part |-> start] }
      /\ \A d \in 1 .. MaxDepth : ways[d] = UNION { Further(one) : one \in ways[d - 1] }
  BY WaysByStep
<1> HIDE DEF start, part, ways
<1>3. 0 \in T
  <2>1. PICK trail : trail = << place.name >>
    OBVIOUS
  <2>2. IsPathFrom(trail, place.name) /\ Len(trail) = 1
    BY <2>1, PathBegins DEF AgreesUpTo
  <2>3. \A j \in 0 .. n : Len(trail) = j + 1 => j = 0
    <3>1. \A j \in 0 .. n : 1 = j + 1 => j = 0
      OBVIOUS
    <3>2. QED
      BY <2>2, <3>1
  <2>4. \A one \in ways[0] : one.path = trail /\ one.part = start
    BY <1>2, <2>1
  <2>5. \A one \in ways[0] : Good(one)
    BY <1>1, <2>2, <2>3, <2>4 DEF AgreesUpTo
  <2>6. QED
    BY <1>0, <2>5
<1>4. ASSUME NEW d \in 1 .. MaxDepth, d - 1 \in T
      PROVE  d \in T
  <2> SUFFICES ASSUME NEW next \in ways[d] PROVE Good(next)
    OBVIOUS
  <2>1. PICK one \in ways[d - 1] : next \in Further(one)
    BY <1>2
  <2>2. Good(one)
    BY <1>4
  <2>3. CASE next = one
    BY <2>2, <2>3
  <2>4. CASE \E step : next = [path |-> Append(one.path, step), part |-> PartAt(one.part, step)]
    <3>1. PICK step : next = [path |-> Append(one.path, step), part |-> PartAt(one.part, step)]
      BY <2>4
    <3>2. PICK longer : longer = Append(one.path, step)
      OBVIOUS
    <3>3. IsPathFrom(one.path, place.name)
      BY <2>2
    <3>4. /\ IsPathFrom(longer, place.name)
          /\ \A j \in Nat : AgreesUpTo(longer, steps, j) =>
               j >= 1 /\ step = steps[j] /\ AgreesUpTo(one.path, steps, j - 1)
      BY <3>2, <3>3, PathLonger
    <3>5. next.path = longer /\ next.part = PartAt(one.part, step)
      BY <3>1, <3>2
    <3>6. ASSUME NEW j \in 0 .. n, AgreesUpTo(longer, steps, j)
          PROVE  next.part = part[j]
      <4>1. j >= 1 /\ step = steps[j] /\ AgreesUpTo(one.path, steps, j - 1)
        BY <3>4, <3>6
      <4>2. one.part = part[j - 1]
        BY <2>2, <4>1
      <4>3. QED
        BY <1>1, <3>5, <4>1, <4>2
    <3>7. QED
      BY <3>4, <3>5, <3>6
  <2>5. QED
    BY <2>1, <2>3, <2>4 DEF Further
<1> HIDE DEF T
<1>5. 0 .. MaxDepth \subseteq T
  BY <1>0, <1>3, <1>4, CountingUp
<1>6. Good(way)
  BY <1>5 DEF T, ways
<1>7. QED
  BY <1>6 DEF part, start

(* Steps that lead to a scalar are those of a way, if they are not too     *)
(* many.                                                                   *)
LEMMA WayExists ==
  ASSUME NEW place, NEW segment, NEW steps, IsList(steps), Len(steps) <= MaxDepth,
         \A step \in Range(steps) : IsStep(step),
         NEW used,
         used = PartThrough(PartOf(segment, place.offset, place.type), steps),
         used.ok, ~ IsAggregate(used.type)
  PROVE  \E way \in ScalarsOf(place, segment) : AgreesUpTo(way.path, steps, Len(steps))
<1> DEFINE start == PartOf(segment, place.offset, place.type)
           part == PartsAlong(start, steps)
           ways == WaysInto(place, segment)
           n == Len(steps)
           Reached(d) == IF d < n THEN d ELSE n
           T == { d \in 0 .. MaxDepth :
                    \E way \in ways[d] : AgreesUpTo(way.path, steps, Reached(d)) }
<1>0. MaxDepth \in Nat /\ n \in Nat /\ n <= MaxDepth
  BY Lists DEF MaxDepth
<1>1. start.ok /\ "ok" \in DOMAIN start
  BY DEF PartOf
<1>2. /\ \A i \in 1 .. n : ~ StepRefused(part[i - 1].type, steps[i])
      /\ used = part[n]
  <2> HIDE DEF start
  <2>1. used = PartThrough(start, steps)
    BY DEF start
  <2>2. QED
    BY <1>0, <1>1, <2>1, NoneRefused DEF PartThrough
<1>3. /\ ways[0] = { [path |-> << place.name >>, part |-> start] }
      /\ \A d \in 1 .. MaxDepth : ways[d] = UNION { Further(one) : one \in ways[d - 1] }
  BY WaysByStep
<1>4. \A d \in 0 .. MaxDepth : \A way \in ways[d] :
        /\ IsPathFrom(way.path, place.name)
        /\ \A j \in 0 .. n : AgreesUpTo(way.path, steps, j) => way.part = part[j]
  BY <1>0, WaysLead
<1> HIDE DEF start, part, ways
<1>5. 0 \in T
  <2>1. PICK way : way = [path |-> << place.name >>, part |-> start]
    OBVIOUS
  <2>2. way \in ways[0] /\ AgreesUpTo(way.path, steps, 0)
    BY <1>3, <2>1, PathBegins
  <2>3. Reached(0) = 0
    BY <1>0
  <2>4. QED
    BY <1>0, <2>2, <2>3
<1>6. ASSUME NEW d \in 1 .. MaxDepth, d - 1 \in T
      PROVE  d \in T
  <2>1. PICK way \in ways[d - 1] : AgreesUpTo(way.path, steps, Reached(d - 1))
    BY <1>6
  <2>2. d - 1 \in 0 .. MaxDepth /\ Reached(d - 1) \in 0 .. n
    BY <1>0
  <2>3. IsPathFrom(way.path, place.name) /\ way.part = part[Reached(d - 1)]
    BY <1>4, <2>1, <2>2
  <2>4. CASE d <= n
    <3>1. Reached(d - 1) = d - 1 /\ Reached(d) = d /\ d \in 1 .. n
      BY <1>0, <2>4
    <3>2. PICK step : step = steps[d]
      OBVIOUS
    <3>3. IsStep(step) /\ ~ StepRefused(way.part.type, step)
      BY <1>2, <2>3, <3>1, <3>2, Lists
    <3>4. step \in StepsInto(way.part.type)
      BY <3>3, StepLeadsInto
    <3>5. PICK next : next = [path |-> Append(way.path, step), part |-> PartAt(way.part, step)]
      OBVIOUS
    <3>6. next \in Further(way)
      BY <3>4, <3>5 DEF Further
    <3>7. next \in ways[d]
      BY <1>3, <2>1, <3>6
    <3>8. AgreesUpTo(next.path, steps, d)
      <4>1. AgreesUpTo(way.path, steps, d - 1) /\ step = steps[(d - 1) + 1] /\ d - 1 \in Nat
        BY <2>1, <3>1, <3>2
      <4>2. AgreesUpTo(Append(way.path, step), steps, (d - 1) + 1)
        BY <2>3, <4>1, PathLonger
      <4>3. (d - 1) + 1 = d /\ next.path = Append(way.path, step)
        BY <3>5
      <4>4. QED
        BY <4>2, <4>3
    <3>9. QED
      BY <3>1, <3>7, <3>8
  <2>5. CASE ~ (d <= n)
    <3>1. Reached(d - 1) = n /\ Reached(d) = n
      BY <1>0, <2>5
    <3>2. way.part = used
      BY <1>2, <2>3, <3>1
    <3>3. StepsInto(way.part.type) = {}
      BY <3>2 DEF StepsInto, IsAggregate
    <3>4. way \in Further(way)
      BY <3>3 DEF Further
    <3>5. way \in ways[d]
      BY <1>3, <2>1, <3>4
    <3>6. QED
      BY <2>1, <3>1, <3>5
  <2>6. QED
    BY <2>4, <2>5
<1> HIDE DEF T
<1>7. 0 .. MaxDepth \subseteq T
  BY <1>0, <1>5, <1>6, CountingUp
<1>8. MaxDepth \in T /\ Reached(MaxDepth) = n
  BY <1>0, <1>7
<1>9. QED
  BY <1>8 DEF T, ways, ScalarsOf

LEMMA PathIs ==
  ASSUME NEW trail, NEW name, IsPathFrom(trail, name), NEW steps, IsList(steps)
  PROVE  trail = << name >> \o steps <=> AgreesUpTo(trail, steps, Len(steps))
<1> DEFINE single == << name >>
           whole == single \o steps
<1>1. PICK n : n = Len(steps)
  OBVIOUS
<1>2. n \in Nat /\ IsList(trail) /\ Len(trail) \in Nat /\ trail[1] = name
  BY <1>1, Lists DEF IsPathFrom
<1>3. IsList(single) /\ Len(single) = 1 /\ single[1] = name
  BY SingleList
<1>4. whole = single \o steps
  OBVIOUS
<1> HIDE DEF single, whole
<1>5. /\ IsList(whole) /\ Len(whole) = n + 1 /\ whole[1] = name
      /\ \A i \in 1 .. n : whole[i + 1] = steps[i]
  <2>1. /\ IsList(whole) /\ Len(whole) = Len(single) + Len(steps)
        /\ \A i \in 1 .. Len(single) : whole[i] = single[i]
        /\ \A i \in 1 .. Len(steps) : whole[Len(single) + i] = steps[i]
    <3>1. IsList(single) /\ IsList(steps)
      BY <1>3
    <3>2. QED
      BY <1>4, <3>1, ConcatLists
  <2>2. 1 \in 1 .. Len(single) /\ Len(single) + Len(steps) = n + 1
        /\ \A i \in 1 .. n : Len(single) + i = i + 1
    BY <1>1, <1>2, <1>3
  <2>3. QED
    BY <1>1, <1>3, <2>1, <2>2
<1>6. ASSUME AgreesUpTo(trail, steps, n)
      PROVE  trail = whole
  <2>1. Len(trail) = Len(whole) /\ Len(trail) = n + 1
    BY <1>5, <1>6 DEF AgreesUpTo
  <2>2. ASSUME NEW i \in 1 .. Len(trail)
        PROVE  trail[i] = whole[i]
    <3>1. CASE i = 1
      BY <1>2, <1>5, <3>1
    <3>2. CASE i # 1
      <4>1. i - 1 \in 1 .. n /\ (i - 1) + 1 = i
        BY <1>2, <2>1, <3>2
      <4>2. trail[(i - 1) + 1] = steps[i - 1] /\ whole[(i - 1) + 1] = steps[i - 1]
        BY <1>5, <1>6, <4>1 DEF AgreesUpTo
      <4>3. QED
        BY <4>1, <4>2
    <3>3. QED
      BY <3>1, <3>2
  <2>3. QED
    BY <1>2, <1>5, <2>1, <2>2, SameLists
<1>7. ASSUME trail = whole
      PROVE  AgreesUpTo(trail, steps, n)
  BY <1>5, <1>7 DEF AgreesUpTo
<1>8. QED
  BY <1>1, <1>6, <1>7 DEF whole, single

-----------------------------------------------------------------------------
(* A symbol knows the segment of its variable; no function that was        *)
(* registered takes a struct or an array.                                  *)

BoundInv ==
  stage # "failed" =>
  /\ \A k \in 1 .. DeclsRead : Decl(k).kind = "variable" =>
       symbols[Decl(k).name].segment = SegmentOf(Decl(k))
  /\ \A i \in 1 .. FunctionsRead : ~ HasAggregate(Fun(i).params)

LEMMA SignatureBound ==
  ASSUME StageInv, SymbolsInv, BoundInv, RegisterFunction, stage' # "failed"
  PROVE  BoundInv'
<1>1. PICK last : last = at
  OBVIOUS
<1>2. PICK f : f = source.functions[last]
  OBVIOUS
<1>3. /\ stage = "functions" /\ stage' = "functions" /\ at' = at + 1
      /\ last \in 1 .. Len(source.functions) /\ source' = source
      /\ RegisterScriptFunction(f) /\ types' = types
  BY <1>1, <1>2, SourceLists DEF RegisterFunction, Failed, StageInv, layoutVars
<1>4. /\ DeclsRead' = DeclsRead /\ FunctionsRead = last - 1 /\ FunctionsRead' = last
      /\ last \in Nat
  BY <1>1, <1>3, SourceLists DEF DeclsRead, FunctionsRead, StageInv
<1>5. f.name \notin DOMAIN symbols /\ ~ HasAggregate(f.params)
      /\ \A n \in DOMAIN symbols : symbols'[n] = symbols[n]
  BY <1>3 DEF RegisterScriptFunction, BindFunction, NameRefused, SignatureRefused, Bind
<1>6. \A k \in 1 .. DeclsRead : Decl(k).name \in DOMAIN symbols
  BY <1>3 DEF SymbolsInv, NamesInv
<1>7. \A k : Decl(k)' = Decl(k) /\ SegmentOf(Decl(k))' = SegmentOf(Decl(k)) /\ Fun(k)' = Fun(k)
  BY <1>3 DEF Decl, SegmentOf, Fun
<1>8. \A k \in 1 .. DeclsRead' : Decl(k)'.kind = "variable" =>
        symbols'[Decl(k)'.name].segment = SegmentOf(Decl(k))'
  BY <1>3, <1>4, <1>5, <1>6, <1>7 DEF BoundInv
<1>9. ASSUME NEW i \in 1 .. FunctionsRead'
      PROVE  ~ HasAggregate(Fun(i).params)'
  <2>1. HasAggregate(Fun(i).params)' <=> HasAggregate(Fun(i).params)
    BY <1>3 DEF HasAggregate, Fun
  <2>2. CASE i = last
    BY <1>2, <1>5, <2>1, <2>2 DEF Fun
  <2>3. CASE i # last
    <3>1. i \in 1 .. FunctionsRead
      BY <1>4, <2>3
    <3>2. QED
      BY <1>3, <2>1, <3>1 DEF BoundInv
  <2>4. QED
    BY <2>2, <2>3
<1>10. QED
  BY <1>8, <1>9 DEF BoundInv

LEMMA DeclarationBound ==
  ASSUME StageInv, SymbolsInv, BoundInv, RegisterDeclaration, stage' # "failed"
  PROVE  BoundInv'
<1>1. PICK last : last = at
  OBVIOUS
<1>2. PICK d : d = source.decls[last]
  OBVIOUS
<1>3. /\ stage = "register" /\ stage' = "register" /\ at' = at + 1
      /\ last \in 1 .. Len(source.decls) /\ source' = source
      /\ IF d.kind = "variable" THEN RegisterVariable(d) ELSE RegisterExtern(d)
  BY <1>1, <1>2, SourceLists DEF RegisterDeclaration, Failed, StageInv
<1>4. /\ DeclsRead = last - 1 /\ DeclsRead' = last /\ FunctionsRead' = 0
      /\ last \in Nat
  BY <1>1, <1>3 DEF DeclsRead, FunctionsRead, StageInv
<1>5. /\ d.name \notin DOMAIN symbols
      /\ d.kind = "variable" => symbols'[d.name].segment = SegmentOf(d)
      /\ \A n \in DOMAIN symbols : symbols'[n] = symbols[n]
  <2>1. CASE d.kind = "variable"
    <3>1. PICK binding : binding = [scope |-> "variable", segment |-> SegmentOf(d)]
      OBVIOUS
    <3>2. d.name \notin DOMAIN symbols /\ Bind(d.name, binding)
      BY <1>3, <2>1, <3>1 DEF RegisterVariable, NameRefused
    <3>3. symbols'[d.name] = binding /\ \A n \in DOMAIN symbols : symbols'[n] = symbols[n]
      BY <3>2, BindAdds
    <3>4. QED
      BY <3>1, <3>2, <3>3
  <2>2. CASE d.kind # "variable"
    BY <1>3, <2>2 DEF RegisterExtern, BindFunction, NameRefused, Bind
  <2>3. QED
    BY <2>1, <2>2
<1>6. \A k \in 1 .. DeclsRead : Decl(k).name \in DOMAIN symbols
  BY <1>3 DEF SymbolsInv, NamesInv
<1>7. \A k : Decl(k)' = Decl(k) /\ SegmentOf(Decl(k))' = SegmentOf(Decl(k))
  BY <1>3 DEF Decl, SegmentOf
<1>8. ASSUME NEW k \in 1 .. DeclsRead', Decl(k).kind = "variable"
      PROVE  symbols'[Decl(k).name].segment = SegmentOf(Decl(k))
  <2>1. CASE k = last
    BY <1>2, <1>5, <1>8, <2>1 DEF Decl
  <2>2. CASE k # last
    <3>1. k \in 1 .. DeclsRead
      BY <1>4, <2>2
    <3>2. QED
      BY <1>3, <1>5, <1>6, <1>8, <3>1 DEF BoundInv
  <2>3. QED
    BY <2>1, <2>2
<1>9. QED
  BY <1>4, <1>7, <1>8 DEF BoundInv

LEMMA BoundStep ==
  ASSUME StageInv, SymbolsInv, BoundInv, [Next]_vars
  PROVE  BoundInv'
<1> SUFFICES ASSUME stage' # "failed" PROVE BoundInv'
  BY DEF BoundInv
<1>1. CASE RegisterDeclaration
  BY <1>1, DeclarationBound
<1>2. CASE RegisterFunction
  BY <1>2, SignatureBound
<1>3. CASE ~ RegisterDeclaration /\ ~ RegisterFunction
  <2>1. symbols' = symbols /\ ~ Counts("register") /\ ~ Counts("functions")
    BY <1>3, SymbolsStay
  <2>2. source' = source /\ Advances
        /\ Len(source.decls) \in Nat /\ Len(source.functions) \in Nat
    BY NextAdvances, SourceLists DEF StageInv
  <2>3. /\ stage # "failed" /\ DeclsRead' = DeclsRead
        /\ FunctionsRead' = FunctionsRead
    BY <2>1, <2>2 DEF Advances, Goes, Counts, Fails, DeclsRead, FunctionsRead,
                      StageInv
  <2>4. \A k : Decl(k)' = Decl(k) /\ SegmentOf(Decl(k))' = SegmentOf(Decl(k))
    BY <2>2 DEF Decl, SegmentOf
  <2>5. \A k \in 1 .. DeclsRead' : Decl(k)'.kind = "variable" =>
          symbols'[Decl(k)'.name].segment = SegmentOf(Decl(k))'
    BY <2>1, <2>3, <2>4 DEF BoundInv
  <2>6. \A i \in 1 .. FunctionsRead' : ~ HasAggregate(Fun(i).params)'
    <3>1. CASE stage = "structs"
      <4>1. FunctionsRead' = 0
        BY <2>3, <3>1 DEF FunctionsRead
      <4>2. QED
        BY <4>1
    <3>2. CASE stage # "structs"
      <4>1. types' = types
        BY <3>2, TypesStay
      <4>2. \A i : HasAggregate(Fun(i).params)' <=> HasAggregate(Fun(i).params)
        BY <2>2, <4>1 DEF HasAggregate, Fun
      <4>3. QED
        BY <2>3, <4>2 DEF BoundInv
    <3>3. QED
      BY <3>1, <3>2
  <2>7. QED
    BY <2>5, <2>6 DEF BoundInv
<1>4. QED
  BY <1>1, <1>2, <1>3

-----------------------------------------------------------------------------
(* The address in a block is that of the literal, or of the part of a      *)
(* variable, that the body names there.                                    *)

LEMMA PoolKnows ==
  ASSUME IsList(images.const), NEW body, IsList(body),
         \A cell \in Range(body) : cell.op = "text" => IsList(cell.text)
  PROVE  \A m \in 1 .. Len(body) :
           body[m].op = "text" => body[m].text \in DOMAIN PoolWith(body).at
<1> DEFINE pools == Pools(body)
           Knows(i) ==
             /\ IsList(pools[i].image)
             /\ \A m \in 1 .. i : body[m].op = "text" => body[m].text \in DOMAIN pools[i].at
           T == { i \in 0 .. Len(body) : Knows(i) }
<1>1. Len(body) \in Nat /\ \A i \in 1 .. Len(body) : body[i] \in Range(body)
  BY Lists
<1>2. /\ pools[0] = Pool
      /\ \A i \in 1 .. Len(body) :
           pools[i] = IF body[i].op # "text" THEN pools[i - 1]
                      ELSE Interned(pools[i - 1], body[i].text)
  BY <1>1, PoolsByStep
<1> HIDE DEF pools
<1>3. 0 \in T
  BY <1>1, <1>2 DEF Pool
<1>4. ASSUME NEW i \in 1 .. Len(body), Knows(i - 1)
      PROVE  Knows(i)
  <2>1. \A m \in 1 .. i : m = i \/ m \in 1 .. i - 1
    OBVIOUS
  <2>2. CASE body[i].op # "text"
    BY <1>2, <1>4, <2>1, <2>2
  <2>3. CASE body[i].op = "text"
    <3>1. PICK before, text : before = pools[i - 1] /\ text = body[i].text
      OBVIOUS
    <3>2. PICK after : after = Interned(before, text)
      OBVIOUS
    <3>3. IsList(before.image) /\ IsList(text) /\ pools[i] = after
      BY <1>1, <1>2, <1>4, <2>3, <3>1, <3>2
    <3>4. /\ Extends(before.image, after.image) /\ text \in DOMAIN after.at
          /\ \A t \in DOMAIN before.at : t \in DOMAIN after.at
      BY <3>2, <3>3, InternedHolds
    <3>5. IsList(after.image)
      BY <3>4 DEF Extends
    <3>6. QED
      BY <1>4, <2>1, <3>1, <3>3, <3>4, <3>5
  <2>4. QED
    BY <2>2, <2>3
<1> HIDE DEF Knows
<1>5. \A i \in 1 .. Len(body) : i - 1 \in T => i \in T
  BY <1>4
<1> HIDE DEF T
<1>6. 0 .. Len(body) \subseteq T
  BY <1>1, <1>3, <1>5, CountingUp
<1>7. Len(body) \in T
  BY <1>1, <1>6
<1>8. QED
  BY <1>7 DEF T, Knows, pools, PoolWith

MeansThere(params, written, cell) ==
  /\ written.op = "text" =>
       /\ written.text \in DOMAIN strings
       /\ cell = AddressCell("const", strings[written.text])
  /\ written.op = "use" =>
       /\ ~ UseRefused(params, written)
       /\ cell = UseCell(params, written)

MeaningInv ==
  stage # "failed" =>
    \A i \in 1 .. Compiled : \A m \in 1 .. Len(Fun(i).body) :
      MeansThere(Fun(i).params, Fun(i).body[m], blocks[IdOf(i)].code[m])

LEMMA SameUse ==
  ASSUME types' = types, symbols' = symbols, places' = places, NEW params, NEW written
  PROVE  /\ UsedPart(params, written)' = UsedPart(params, written)
         /\ UseRefused(params, written)' <=> UseRefused(params, written)
         /\ UseCell(params, written)' = UseCell(params, written)
<1>1. \A name : Local(params, name)' = Local(params, name)
  BY DEF Local, FrameLayout
<1>2. \A name : Global(name)' = Global(name)
  BY DEF Global, PlaceOf
<1>3. \A name : Meant(params, name)' = Meant(params, name)
  BY <1>1, <1>2 DEF Meant, Functions, NoVariable
<1>4. UsedPart(params, written)' = UsedPart(params, written)
  BY <1>3 DEF UsedPart
<1>5. QED
  BY <1>4 DEF UseRefused, UseCell

LEMMA MeansStill ==
  ASSUME types' = types, symbols' = symbols, places' = places,
         \A t \in DOMAIN strings : t \in DOMAIN strings' /\ strings'[t] = strings[t],
         NEW params, NEW written, NEW cell, MeansThere(params, written, cell)
  PROVE  MeansThere(params, written, cell)'
<1>1. written.op = "use" =>
        /\ UseRefused(params, written)' <=> UseRefused(params, written)
        /\ UseCell(params, written)' = UseCell(params, written)
  BY SameUse
<1>2. QED
  BY <1>1 DEF MeansThere, AddressCell

LEMMA BlockMeans ==
  ASSUME NEW f, IsList(f.body)
  PROVE  \A m \in 1 .. Len(f.body) : BlockOf(f).code[m] = CodeCell(f, f.body[m])
<1> DEFINE Cell(k) == CodeCell(f, f.body[k])
           S == { Cell(k) : k \in 1 .. Len(f.body) }
           cells == [k \in DOMAIN f.body |-> Cell(k)]
           code == WithReturn(cells)
<1>1. Len(f.body) \in Nat /\ DOMAIN f.body = 1 .. Len(f.body)
  BY Lists
<1>2. BlockOf(f).code = code
  BY DEF BlockOf
<1> HIDE DEF Cell
<1>3. cells \in Seq(S) /\ Len(cells) = Len(f.body)
  BY <1>1
<1>4. \A k \in 1 .. Len(f.body) : cells[k] = Cell(k)
  BY <1>1
<1> HIDE DEF cells, S
<1>5. \A k \in 1 .. Len(f.body) : code[k] = cells[k]
  BY <1>3, ReturnAppended
<1>6. QED
  BY <1>2, <1>4, <1>5 DEF Cell

(* The cells of a body mean, once its literals are known, what they should. *)
LEMMA CellMeans ==
  ASSUME types' = types, symbols' = symbols, places' = places,
         NEW f, Intern(f.body), NEW written,
         written.op = "text" => written.text \in DOMAIN PoolWith(f.body).at,
         written.op = "use" => ~ UseRefused(f.params, written),
         NEW cell, cell = CodeCell(f, written)
  PROVE  MeansThere(f.params, written, cell)'
<1>1. strings' = PoolWith(f.body).at
  BY DEF Intern
<1>2. written.op = "use" =>
        /\ UseRefused(f.params, written)' <=> UseRefused(f.params, written)
        /\ UseCell(f.params, written)' = UseCell(f.params, written)
  BY SameUse
<1>3. /\ written.op = "use" => cell = UseCell(f.params, written)
      /\ written.op = "text" =>
           cell = AddressCell("const", PoolWith(f.body).at[written.text])
  BY DEF CodeCell
<1>5. CASE written.op = "use"
  BY <1>2, <1>3, <1>5 DEF MeansThere
<1>6. CASE written.op = "text"
  BY <1>1, <1>3, <1>6 DEF MeansThere, AddressCell
<1>7. CASE written.op \notin {"use", "text"}
  BY <1>7 DEF MeansThere
<1>8. QED
  BY <1>5, <1>6, <1>7

LEMMA CompilingMeans ==
  ASSUME StageInv, SymbolsInv, BlocksInv, DataInv, MeaningInv, CompileFunction,
         [Next]_vars, stage' # "failed"
  PROVE  MeaningInv'
<1>1. PICK n : n = at
  OBVIOUS
<1>2. PICK f : f = Fun(n)
  OBVIOUS
<1>3. PICK compiled, id : compiled = BlockOf(f) /\ id = IdOf(n)
  OBVIOUS
<1>4. /\ stage = "compile" /\ stage' = "compile" /\ at' = n + 1
      /\ n \in 1 .. Len(source.functions)
      /\ blocks' = [b \in DOMAIN blocks \cup {id} |->
                      IF b = id THEN compiled ELSE blocks[b]]
      /\ ~ FunctionRefused(f) /\ Intern(f.body)
      /\ source' = source /\ symbols' = symbols
  BY <1>1, <1>2, <1>3, CompiledBlock
<1>5. AllBound /\ Compiled = n - 1 /\ Compiled' = n /\ n \in Nat
  BY <1>1, <1>4 DEF AllBound, Compiled, BeforeCompile, StageInv
<1>6. types' = types /\ places' = places
  BY <1>4 DEF Intern
<1>7. IsList(f.body) /\ \A cell \in Range(f.body) : cell.op = "text" => IsList(cell.text)
  <2>1. IsList(f.body) /\ f \in Range(source.functions)
    BY <1>2, <1>4, FunctionLists
  <2>2. QED
    BY <2>1, SourceLists DEF StageInv, IsSource
<1>8. IsList(images.const)
  BY DEF DataInv
<1>9. \A t \in DOMAIN strings : t \in DOMAIN strings' /\ strings'[t] = strings[t]
  <2>1. strings' = PoolWith(f.body).at
    BY <1>4 DEF Intern
  <2>2. QED
    BY <1>7, <1>8, <2>1, PoolHolds
<1>10. DOMAIN blocks = { IdOf(i) : i \in 1 .. n - 1 }
  BY <1>4, <1>5 DEF BlocksInv
<1>11. \A i \in 1 .. n : Fun(i)' = Fun(i) /\ IdOf(i)' = IdOf(i)
  BY <1>4 DEF IdOf, Fun
<1>12. \A i \in 1 .. n - 1 : IdOf(i) # id
  BY <1>3, <1>4, <1>5, FunctionsBound
<1>13. ASSUME NEW i \in 1 .. n - 1, NEW m \in 1 .. Len(Fun(i).body)
       PROVE  MeansThere(Fun(i).params, Fun(i).body[m], blocks[IdOf(i)].code[m])'
  <2>1. PICK g : g = Fun(i)
    OBVIOUS
  <2>2. PICK cell : cell = blocks[IdOf(i)].code[m]
    OBVIOUS
  <2>3. MeansThere(g.params, g.body[m], cell)
    BY <1>4, <1>5, <2>1, <2>2 DEF MeaningInv
  <2>4. MeansThere(g.params, g.body[m], cell)'
    BY <1>4, <1>6, <1>9, <2>3, MeansStill
  <2>5. blocks'[IdOf(i)] = blocks[IdOf(i)]
    BY <1>4, <1>10, <1>12
  <2>6. Fun(i)' = g /\ blocks'[IdOf(i)'].code[m] = cell
    BY <1>5, <1>11, <2>1, <2>2, <2>5
  <2>7. QED
    BY <2>4, <2>6
<1>14. ASSUME NEW m \in 1 .. Len(f.body)
       PROVE  MeansThere(Fun(n).params, Fun(n).body[m], blocks[IdOf(n)].code[m])'
  <2>1. PICK written : written = f.body[m]
    OBVIOUS
  <2>2. compiled.code[m] = CodeCell(f, written)
    BY <1>3, <1>7, <2>1, BlockMeans
  <2>3. written.op = "text" => written.text \in DOMAIN PoolWith(f.body).at
    BY <1>7, <1>8, <2>1, PoolKnows
  <2>4. written.op = "use" => ~ UseRefused(f.params, written)
    <3>1. m \in DOMAIN f.body
      BY <1>7, Lists
    <3>2. QED
      BY <1>4, <2>1, <3>1 DEF FunctionRefused, BodyRefused
  <2>5. PICK cell : cell = CodeCell(f, written)
    OBVIOUS
  <2>6. MeansThere(f.params, written, cell)'
    BY <1>4, <1>6, <2>3, <2>4, <2>5, CellMeans
  <2>7. Fun(n)' = f /\ blocks'[IdOf(n)'].code[m] = cell
    BY <1>2, <1>3, <1>4, <1>5, <1>11, <2>2, <2>5
  <2>8. QED
    BY <2>1, <2>6, <2>7
<1>15. ASSUME NEW i \in 1 .. n, NEW m \in 1 .. Len(Fun(i)'.body)
       PROVE  MeansThere(Fun(i).params, Fun(i).body[m], blocks[IdOf(i)].code[m])'
  <2>1. m \in 1 .. Len(Fun(i).body)
    BY <1>11
  <2>2. CASE i = n
    BY <1>2, <1>14, <2>1, <2>2
  <2>3. CASE i # n
    <3>1. i \in 1 .. n - 1
      BY <1>5, <2>3
    <3>2. QED
      BY <1>13, <2>1, <3>1
  <2>4. QED
    BY <2>2, <2>3
<1>16. QED
  BY <1>5, <1>15 DEF MeaningInv

LEMMA MeaningStep ==
  ASSUME StageInv, SymbolsInv, BlocksInv, DataInv, MeaningInv, [Next]_vars
  PROVE  MeaningInv'
<1> SUFFICES ASSUME stage' # "failed" PROVE MeaningInv'
  BY DEF MeaningInv
<1>1. CASE CompileFunction
  BY <1>1, CompilingMeans
<1>2. CASE ~ CompileFunction
  <2>1. blocks' = blocks
    BY <1>2, BlocksStay
  <2>2. source' = source /\ Advances /\ Len(source.functions) \in Nat
    BY NextAdvances, SourceLists DEF StageInv
  <2>3. ~ Counts("compile")
    BY <1>2, CompileCounts DEF Counts, StageInv
  <2>4. stage # "failed" /\ Compiled' = Compiled
    BY <2>2, <2>3 DEF Advances, Goes, Counts, Fails, Compiled, BeforeCompile, StageInv
  <2>5. CASE stage \in BeforeCompile
    <3>1. Compiled' = 0
      BY <2>4, <2>5 DEF Compiled
    <3>2. QED
      BY <3>1 DEF MeaningInv
  <2>6. CASE stage \notin BeforeCompile
    <3>1. types' = types
      BY <2>6, TypesStay DEF BeforeCompile
    <3>2. ~ RegisterDeclaration /\ ~ RegisterFunction /\ ~ InitializeGlobal
      BY <2>6 DEF BeforeCompile, RegisterDeclaration, RegisterFunction, InitializeGlobal
    <3>3. symbols' = symbols /\ places' = places /\ strings' = strings
      BY <1>2, <3>2, SymbolsStay, PlacesStay, ImagesStay
    <3>4. ASSUME NEW i \in 1 .. Compiled, NEW m \in 1 .. Len(Fun(i).body)
          PROVE  MeansThere(Fun(i).params, Fun(i).body[m], blocks[IdOf(i)].code[m])'
      <4>1. PICK g : g = Fun(i)
        OBVIOUS
      <4>2. PICK cell : cell = blocks[IdOf(i)].code[m]
        OBVIOUS
      <4>3. MeansThere(g.params, g.body[m], cell)
        BY <2>4, <4>1, <4>2 DEF MeaningInv
      <4>4. MeansThere(g.params, g.body[m], cell)'
        BY <3>1, <3>3, <4>3, MeansStill
      <4>5. Fun(i)' = g /\ blocks'[IdOf(i)'].code[m] = cell
        BY <2>1, <2>2, <3>3, <4>1, <4>2 DEF IdOf, Fun
      <4>6. QED
        BY <4>4, <4>5
    <3>5. \A i : Fun(i)' = Fun(i)
      BY <2>2 DEF Fun
    <3>6. QED
      BY <2>4, <3>4, <3>5 DEF MeaningInv
  <2>7. QED
    BY <2>5, <2>6
<1>3. QED
  BY <1>1, <1>2

-----------------------------------------------------------------------------
(* What a use loads is what its name and steps name among all scalars      *)
(* there are.                                                              *)

IsUse(use) == IsList(use.steps) /\ \A step \in Range(use.steps) : IsStep(step)

LEMMA PartIsThere ==
  ASSUME NEW params, NEW use, IsUse(use), ~ UseRefused(params, use),
         NEW whole, whole = Meant(params, use.name), "ok" \in DOMAIN whole
  PROVE  /\ whole.ok
         /\ UsedPart(params, use) = PartThrough(whole, use.steps)
         /\ ~ IsAggregate(whole.type) => UsedPart(params, use) = whole
<1> DEFINE steps == use.steps
           part == PartsAlong(whole, steps)
<1>1. IsList(steps) /\ Len(steps) \in Nat
  BY Lists DEF IsUse
<1>2. UsedPart(params, use) = PartThrough(whole, steps) /\ PartThrough(whole, steps).ok
  BY DEF UsedPart, UseRefused
<1>3. /\ whole.ok
      /\ \A i \in 1 .. Len(steps) : ~ StepRefused(part[i - 1].type, steps[i])
  BY <1>1, <1>2, NoneRefused
<1>4. part[0] = whole
  BY <1>1, PartsByStep
<1> HIDE DEF part
<1>5. ASSUME ~ IsAggregate(whole.type)
      PROVE  Len(steps) = 0
  <2>1. SUFFICES ASSUME Len(steps) # 0 PROVE FALSE
    OBVIOUS
  <2>2. 1 \in 1 .. Len(steps) /\ 1 - 1 = 0
    BY <1>1, <2>1
  <2>3. PICK step : step = steps[1]
    OBVIOUS
  <2>4. ~ StepRefused(whole.type, step)
    BY <1>3, <1>4, <2>2, <2>3
  <2>5. IsStep(step)
    BY <1>1, <2>2, <2>3, Lists DEF IsUse
  <2>6. QED
    BY <1>5, <2>4, <2>5, StepLeadsInto
<1>6. PartThrough(whole, steps) = part[Len(steps)]
  BY DEF PartThrough, part
<1>7. QED
  BY <1>2, <1>3, <1>4, <1>5, <1>6

LEMMA UsedLocal ==
  ASSUME NEW params, ~ HasAggregate(params), NEW use, IsUse(use),
         ~ UseRefused(params, use), \E i \in DOMAIN params : params[i].name = use.name
  PROVE  UseCell(params, use).operand = Used(params, use)
<1>1. PICK i : i = CHOOSE j \in DOMAIN params : params[j].name = use.name
  OBVIOUS
<1>2. i \in DOMAIN params /\ params[i].name = use.name
  BY <1>1
<1>3. PICK whole : whole = PartOf("frame", FrameLayout(ParamTypes(params)).offsets[i],
                                  types[params[i].type])
  OBVIOUS
<1>4. Meant(params, use.name) = whole
  BY <1>1, <1>2, <1>3 DEF Meant, Local
<1>5. "ok" \in DOMAIN whole /\ ~ IsAggregate(whole.type)
  BY <1>2, <1>3 DEF PartOf, HasAggregate
<1>6. UsedPart(params, use) = whole
  BY <1>4, <1>5, PartIsThere
<1>7. Used(params, use) = << "frame", FrameLayout(ParamTypes(params)).offsets[i] >>
  BY <1>1, <1>2 DEF Used
<1>8. QED
  BY <1>3, <1>6, <1>7 DEF UseCell, AddressCell, PartOf

(* A name that is no function's is that of a variable with a place. *)
LEMMA GlobalHasPlace ==
  ASSUME StageInv, SymbolsInv, BoundInv, GlobalsInv, PlacesNamedInv, stage # "failed",
         NEW name \in DOMAIN symbols \ Functions
  PROVE  \E k \in 1 .. DeclsRead, segment \in Segments :
           \E i \in 1 .. Len(places[segment]) :
             /\ Decl(k).name = name /\ IsPlaceOf(k, segment, i)
             /\ PlaceOf(name) = places[segment][i] /\ symbols[name].segment = segment
<1>1. NamesInv /\ BindingsInv /\ PlacesNamed
  BY DEF SymbolsInv, PlacesNamedInv
<1>2. symbols[name].scope = "variable"
  BY DEF Functions
<1>3. \A i \in 1 .. FunctionsRead : Fun(i).name # name
  BY <1>1, <1>2 DEF BindingsInv
<1>4. PICK k \in 1 .. DeclsRead : Decl(k).name = name
  BY <1>1, <1>3 DEF NamesInv
<1>5. Decl(k).kind = "variable"
  <2>1. IsSource(source) /\ DOMAIN source.decls = 1 .. Len(source.decls)
    BY SourceLists DEF StageInv
  <2>2. DeclsRead \in 0 .. Len(source.decls) /\ Len(source.decls) \in Nat
    BY SourceLists DEF StageInv
  <2>3. k \in 1 .. Len(source.decls)
    BY <2>2
  <2>4. Decl(k) \in Range(source.decls)
    BY <2>1, <2>3 DEF Decl, Range
  <2>5. QED
    BY <1>1, <1>2, <1>4, <2>1, <2>4 DEF IsSource, BindingsInv
<1>6. PICK segment : segment = SegmentOf(Decl(k))
  OBVIOUS
<1>7. segment \in Segments /\ symbols[name].segment = segment
  BY <1>4, <1>5, <1>6, SegmentsAre DEF BoundInv
<1>8. PICK i \in 1 .. Len(places[segment]) : IsPlaceOf(k, segment, i)
  BY <1>1, <1>5, <1>6 DEF PlacesNamed
<1>9. PlaceOf(Decl(k).name) = places[segment][i]
  BY <1>1, <1>7, <1>8, PlaceFound
<1>10. QED
  BY <1>4, <1>7, <1>8, <1>9

LEMMA UsedGlobal ==
  ASSUME StageInv, SymbolsInv, BoundInv, GlobalsInv, PlacesNamedInv, stage # "failed",
         NEW params, NEW use, IsUse(use), Len(use.steps) <= MaxDepth,
         ~ UseRefused(params, use), ~ \E i \in DOMAIN params : params[i].name = use.name
  PROVE  UseCell(params, use).operand = Used(params, use)
<1>1. PICK name, steps : name = use.name /\ steps = use.steps
  OBVIOUS
<1>2. IsList(steps) /\ Len(steps) \in Nat /\ Len(steps) <= MaxDepth
      /\ \A step \in Range(steps) : IsStep(step)
  BY <1>1, Lists DEF IsUse
<1>3. name \in DOMAIN symbols \ Functions
  <2>1. SUFFICES ASSUME name \notin DOMAIN symbols \ Functions PROVE FALSE
    OBVIOUS
  <2>2. PICK whole : whole = NoVariable
    OBVIOUS
  <2>3. Meant(params, use.name) = whole
    BY <1>1, <2>1, <2>2 DEF Meant
  <2>4. "ok" \in DOMAIN whole /\ whole.ok = FALSE
    BY <2>2 DEF NoVariable, PartOf
  <2>5. QED
    BY <2>3, <2>4, PartIsThere
<1>0. PICK k \in 1 .. DeclsRead, segment \in Segments :
        \E i \in 1 .. Len(places[segment]) :
          /\ Decl(k).name = name /\ IsPlaceOf(k, segment, i)
          /\ PlaceOf(name) = places[segment][i] /\ symbols[name].segment = segment
  BY <1>3, GlobalHasPlace
<1>4. PICK i \in 1 .. Len(places[segment]) :
        /\ Decl(k).name = name /\ IsPlaceOf(k, segment, i)
        /\ PlaceOf(name) = places[segment][i] /\ symbols[name].segment = segment
  BY <1>0
<1>5. PICK place : place = places[segment][i]
  OBVIOUS
<1>6. PICK whole : whole = PartOf(segment, place.offset, place.type)
  OBVIOUS
<1>7. Meant(params, use.name) = whole
  BY <1>1, <1>3, <1>4, <1>5, <1>6 DEF Meant, Global
<1>8. PICK used : used = UsedPart(params, use)
  OBVIOUS
<1>9. used = PartThrough(whole, steps) /\ used.ok /\ ~ IsAggregate(used.type)
  <2>1. "ok" \in DOMAIN whole
    BY <1>6 DEF PartOf
  <2>2. QED
    BY <1>1, <1>7, <1>8, <2>1, PartIsThere DEF UseRefused
<1>10. used = PartThrough(PartOf(segment, place.offset, place.type), steps)
       /\ used = PartsAlong(PartOf(segment, place.offset, place.type), steps)[Len(steps)]
  BY <1>6, <1>9 DEF PartThrough
<1>11. PICK way \in ScalarsOf(place, segment) : AgreesUpTo(way.path, steps, Len(steps))
  BY <1>2, <1>9, <1>10, WayExists
<1> DEFINE all == UNION { ScalarsIn(s) : s \in Segments }
           trail == << name >> \o steps
<1>12. \A s \in Segments : DOMAIN places[s] = 1 .. Len(places[s])
  BY Lists DEF GlobalsInv, SegmentLaid, TypesLaid
<1>13. place.name = name
  BY <1>4, <1>5 DEF IsPlaceOf
<1>14. ASSUME NEW s, NEW p, NEW one \in ScalarsOf(p, s)
       PROVE  /\ IsPathFrom(one.path, p.name)
              /\ AgreesUpTo(one.path, steps, Len(steps)) =>
                   one.part = PartsAlong(PartOf(s, p.offset, p.type), steps)[Len(steps)]
  <2>1. MaxDepth \in 0 .. MaxDepth /\ one \in WaysInto(p, s)[MaxDepth]
    BY DEF ScalarsOf, MaxDepth
  <2>2. Len(steps) \in 0 .. Len(steps)
    BY <1>2
  <2>3. QED
    BY <1>2, <2>1, <2>2, WaysLead
<1>15. way \in all /\ way.path = trail
  <2>1. place \in Range(places[segment])
    BY <1>5, <1>12 DEF Range
  <2>2. way \in ScalarsIn(segment)
    BY <1>11, <2>1 DEF ScalarsIn
  <2>3. IsPathFrom(way.path, name)
    BY <1>11, <1>13, <1>14
  <2>4. QED
    BY <1>2, <1>11, <2>2, <2>3, PathIs
<1>16. ASSUME NEW one \in all, one.path = trail
       PROVE  one.part = used
  <2>1. PICK s \in Segments : one \in ScalarsIn(s)
    OBVIOUS
  <2>2. PICK p \in Range(places[s]) : one \in ScalarsOf(p, s)
    BY <2>1 DEF ScalarsIn
  <2>3. IsPathFrom(one.path, p.name)
    BY <2>2, <1>14
  <2>4. IsPathFrom(way.path, name)
    BY <1>11, <1>13, <1>14
  <2>5. p.name = name
    BY <1>15, <1>16, <2>3, <2>4 DEF IsPathFrom
  <2>6. PICK j \in 1 .. Len(places[s]) : p = places[s][j]
    BY <1>12, <2>2 DEF Range
  <2>7. PlacesNamed /\ NamesInv
    BY DEF PlacesNamedInv, SymbolsInv
  <2>8. PICK m \in 1 .. DeclsRead : IsPlaceOf(m, s, j)
    BY <2>7 DEF PlacesNamed
  <2>9. Decl(m).name = Decl(k).name
    BY <1>4, <2>5, <2>6, <2>8 DEF IsPlaceOf
  <2>10. s = segment
    BY <1>4, <2>7, <2>8, <2>9 DEF IsPlaceOf, NamesInv
  <2>11. j = i
    BY <1>5, <1>13, <2>5, <2>6, <2>7, <2>10 DEF PlacesNamed
  <2>12. p = place
    BY <1>5, <2>6, <2>10, <2>11
  <2>13. AgreesUpTo(one.path, steps, Len(steps))
    BY <1>11, <1>15, <1>16
  <2>14. QED
    BY <1>10, <1>14, <2>2, <2>10, <2>12, <2>13
<1> HIDE DEF all, trail
<1>17. PICK found : found = CHOOSE one \in all : one.path = trail
  OBVIOUS
<1>18. found.part = used
  BY <1>15, <1>16, <1>17
<1>19. Used(params, use) = << found.part.segment, found.part.offset >>
  BY <1>1, <1>17 DEF Used, all, trail
<1>20. QED
  BY <1>8, <1>18, <1>19 DEF UseCell, AddressCell

LEMMA MeaningInvariant == Spec => [](BoundInv /\ MeaningInv)
<1> DEFINE Both == BoundInv /\ MeaningInv
<1>1. Init => Both
  <2> SUFFICES ASSUME Init PROVE Both
    OBVIOUS
  <2>1. stage = "structs"
    BY DEF Init
  <2>2. DeclsRead = 0 /\ FunctionsRead = 0 /\ Compiled = 0
    BY <2>1 DEF DeclsRead, FunctionsRead, Compiled, BeforeCompile
  <2>3. QED
    BY <2>2 DEF BoundInv, MeaningInv
<1>2. Inv /\ DataSound /\ Both /\ [Next]_vars => Both'
  BY BoundStep, MeaningStep DEF Inv, DataSound
<1> HIDE DEF Both
<1>3. Spec => []Both
  BY <1>1, <1>2, Invariant, DataSoundInvariant, PTL DEF Spec
<1>4. QED
  BY <1>3 DEF Both

(* Once a program is linked, each function keeps its uses and literals. *)
LEMMA UsesAreMeant ==
  ASSUME Inv, BoundInv, GlobalsInv, PlacesNamedInv, stage = "linked",
         NEW i \in 1 .. Len(source.functions), NEW m \in 1 .. Len(Fun(i).body),
         NEW written, written = Fun(i).body[m], written.op = "use",
         Len(written.steps) <= MaxDepth, NEW cell,
         MeansThere(Fun(i).params, written, cell)
  PROVE  cell.operand = Used(Fun(i).params, written)
<1>1. StageInv /\ SymbolsInv /\ stage # "failed" /\ AllBound
  BY LinkedStage
<1>2. ~ HasAggregate(Fun(i).params)
  BY <1>1 DEF BoundInv, FunctionsRead
<1>3. IsUse(written)
  <2>1. IsList(Fun(i).body) /\ Fun(i) \in Range(source.functions) /\ IsSource(source)
    BY <1>1, FunctionLists, SourceLists DEF StageInv
  <2>2. written \in Range(Fun(i).body)
    BY <2>1, Lists
  <2>3. QED
    BY <2>1, <2>2 DEF IsSource, IsUse, IsStep
<1>4. ~ UseRefused(Fun(i).params, written) /\ cell = UseCell(Fun(i).params, written)
  BY DEF MeansThere
<1>5. PICK params : params = Fun(i).params
  OBVIOUS
<1>6. CASE \E j \in DOMAIN params : params[j].name = written.name
  BY <1>2, <1>3, <1>4, <1>5, <1>6, UsedLocal
<1>7. CASE ~ \E j \in DOMAIN params : params[j].name = written.name
  BY <1>1, <1>3, <1>4, <1>5, <1>7, UsedGlobal
<1>8. QED
  BY <1>6, <1>7

LEMMA TextsAreMeant ==
  ASSUME ValuesInv, DataInv, LinkedImages, stage = "linked", Roomy("const"),
         Len(linked.const) <= MaxOffset, NEW params, NEW written, NEW cell,
         written.op = "text", MeansThere(params, written, cell)
  PROVE  Reads(linked.const, cell.operand[2], written.text)
<1>1. linked.const = images.const /\ IsList(images.const)
  BY DEF LinkedImages, DataInv
<1>2. HasRoom(places["const"])
  BY DEF Roomy, HasRoom, EndOfList, TypesOf, TypesIn
<1>3. LiteralsInv
  BY DEF ValuesInv
<1>4. LiteralsLie(images.const, strings, EndOfList(places["const"]))
  BY <1>1, <1>2, <1>3 DEF LiteralsInv
<1>5. written.text \in DOMAIN strings /\ cell.operand[2] = strings[written.text]
  BY DEF MeansThere, AddressCell
<1>6. TextAt(images.const, strings[written.text], written.text)
  BY <1>4, <1>5 DEF LiteralsLie
<1>7. QED
  BY <1>1, <1>5, <1>6, TextIsRead

LEMMA LinkedMeans ==
  ASSUME Inv, CodeInv, DataInv, GlobalsInv, PlacesNamedInv, ValuesInv, LinkedImages,
         BoundInv, MeaningInv
  PROVE  LinkedAsWritten
<1> SUFFICES ASSUME stage = "linked"
             PROVE  LinkedWith(DoesAsWritten)
  BY DEF LinkedAsWritten
<1>1. PICK descriptorOf \in Bijection(Needed, DOMAIN linked.functions) :
        /\ descriptorOf[EntryName] = linked.entryPoint + 1
        /\ \A name \in Needed : IsBlockOf(name, descriptorOf[name], descriptorOf)
  BY DescriptorsLinked
<1>2. StageInv /\ Compiled = Len(source.functions) /\ BlocksInv /\ stage # "failed"
  BY LinkedStage
<1>3. ASSUME NEW name \in Needed
      PROVE  LET start == linked.functions[descriptorOf[name]].body
                 body == Written(name).body
             IN  /\ start + Len(body) <= Len(linked.text)
                 /\ \A m \in DOMAIN body :
                      DoesAsWritten(linked.text[start + m], body[m],
                                    Written(name).params, start, descriptorOf)
  <2>1. PICK i \in 1 .. Len(source.functions), k \in 1 .. Len(program.functions) :
          /\ Fun(i) = Written(name) /\ program.functions[k].id = IdOf(i)
          /\ linked.functions[descriptorOf[name]].body = program.functions[k].address
          /\ program.functions[k].address + Len(Fun(i).body) <= Len(linked.text)
          /\ \A m \in DOMAIN Fun(i).body :
               LeadsAsWritten(linked.text[program.functions[k].address + m],
                              Fun(i).body[m], Fun(i).params,
                              program.functions[k].address, descriptorOf)
    BY <1>1 DEF IsBlockOf
  <2>2. PICK start, body, code :
          /\ start = program.functions[k].address /\ body = Fun(i).body
          /\ code = blocks[IdOf(i)].code
    OBVIOUS
  <2>3. IsList(body) /\ DOMAIN body = 1 .. Len(body)
    BY <1>2, <2>2, FunctionLists, Lists
  <2>4. Len(body) <= Len(code) /\ Len(body) \in Nat /\ Len(code) \in Nat
        /\ \A m \in 1 .. Len(body) : ControlCell(Fun(i), m, code[m])
    <3>1. BlockIsOf(i)
      BY <1>2 DEF BlocksInv
    <3>2. IsList(code) /\ Len(body) <= Len(code)
          /\ \A m \in 1 .. Len(body) : ControlCell(Fun(i), m, code[m])
      BY <2>2, <3>1 DEF BlockIsOf
    <3>3. QED
      BY <2>3, <3>2, Lists
  <2>5. \A m \in 1 .. Len(code) :
          code[m].op \notin {"jump", "call"} => linked.text[start + m] = code[m]
    BY <2>1, <2>2, LinkedCell
  <2>6. ASSUME NEW m \in DOMAIN body
        PROVE  DoesAsWritten(linked.text[start + m], body[m], Fun(i).params, start,
                             descriptorOf)
    <3>1. PICK written, cell : written = body[m] /\ cell = linked.text[start + m]
      OBVIOUS
    <3>2. LeadsAsWritten(cell, written, Fun(i).params, start, descriptorOf)
      BY <2>1, <2>2, <3>1
    <3>3. MeansThere(Fun(i).params, written, code[m])
      BY <1>2, <2>2, <2>3, <3>1 DEF MeaningInv
    <3>4. written.op \in {"text", "use"} => code[m].op = "address"
      BY <2>2, <2>3, <2>4, <3>1 DEF ControlCell
    <3>5. m \in 1 .. Len(code)
      BY <2>3, <2>4
    <3>6. written.op \in {"text", "use"} => cell = code[m]
      BY <2>5, <3>1, <3>4, <3>5
    <3>7. ASSUME written.op = "text"
          PROVE  /\ cell.operand[1] = "const"
                 /\ Roomy("const") /\ Len(linked.const) <= MaxOffset =>
                      Reads(linked.const, cell.operand[2], written.text)
      <4>1. MeansThere(Fun(i).params, written, cell)
        BY <3>3, <3>6, <3>7
      <4>2. cell.operand[1] = "const"
        BY <3>7, <4>1 DEF MeansThere, AddressCell
      <4>3. QED
        BY <3>7, <4>1, <4>2, TextsAreMeant
    <3>8. ASSUME written.op = "use", Len(written.steps) <= MaxDepth
          PROVE  cell.operand = Used(Fun(i).params, written)
      <4>1. MeansThere(Fun(i).params, written, cell)
        BY <3>3, <3>6, <3>8
      <4>2. m \in 1 .. Len(Fun(i).body) /\ written = Fun(i).body[m]
        BY <2>2, <2>3, <3>1
      <4>3. QED
        BY <3>8, <4>1, <4>2, UsesAreMeant
    <3>9. QED
      BY <3>1, <3>2, <3>7, <3>8 DEF DoesAsWritten
  <2>7. QED
    BY <2>1, <2>2, <2>6
<1>4. QED
  BY <1>1, <1>3 DEF LinkedWith

(* compile.go 226-289, 805-829, 1450-1524, cova/link.go 138-213: whatever  *)
(* the program, what is linked is its source, cell by cell: control goes   *)
(* where the source says, each load of a variable, of a member or of an    *)
(* item takes the address of that one scalar and no other, and each        *)
(* literal's address leads to its characters and a zero.                   *)
THEOREM SourceIsLinked == Spec => []LinkedAsWritten
<1>1. /\ Inv /\ CodeInv /\ DataSound /\ GlobalsInv
      /\ PlacesNamedInv /\ ValuesInv /\ LinkedImages /\ BoundInv /\ MeaningInv
      => LinkedAsWritten
  BY LinkedMeans DEF DataSound
<1>2. QED
  BY <1>1, Invariant, CodeInvariant, DataSoundInvariant, GlobalsInvariant,
     ValuesInvariant, MeaningInvariant, PTL
=============================================================================
