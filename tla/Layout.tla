-------------------------------- MODULE Layout --------------------------------
(***************************************************************************)
(* Where things lie: structs and arrays (cova/types.go), and the global    *)
(* variables of a program with their initial values (cova/compile.go).     *)
(*                                                                         *)
(* A global lies in one of four segments: the memory that the host lends   *)
(* (extern), zeroed memory (bss), initialized memory (data), and memory    *)
(* that is only read (const), which holds string literals too.  The types  *)
(* are one of each size that the compiler treats alike; Text is            *)
(* const uint8*, Pointer any other pointer.                                *)
(***************************************************************************)
EXTENDS Integers, FiniteSets, SequencesExt

CONSTANTS
  ByteBase,   \* values of a byte, 256 in the code
  NoValue     \* a declaration has no initializer

(* A byte of an address tells the segments, 0 to 4, apart. *)
ASSUME LayoutAssumption == ByteBase \in Nat /\ ByteBase > 4

VARIABLES
  types,      \* name -> type descriptor: namedTypes
  places,     \* segment -> its globals, in order: externSymbols, bssSymbols ...
  sizes,      \* segment -> its size: externByteSize, bssByteSize, dataByteSize
  images,     \* dataImage and constImage
  strings     \* stringLiteralOffsets

layoutVars == << types, places, sizes, images, strings >>

(* Offsets and sizes are 32 bits wide; an address has 24 for its offset.   *)
AddressSpace == ByteBase * ByteBase * ByteBase
MaxOffset == AddressSpace * ByteBase - 1
Uint32(n) == n % (MaxOffset + 1)

(* How many numbers so many bytes can tell apart. *)
Powers(size) ==
  LET power[i \in 0 .. size] == IF i = 0 THEN 1 ELSE ByteBase * power[i - 1]
  IN  power

(* The bytes of a number, the lowest first. *)
Bytes(number, size) ==
  [i \in 1 .. size |-> (number \div Powers(size)[i - 1]) % ByteBase]

AlignUp(offset, alignment) ==
  ((offset + alignment - 1) \div alignment) * alignment
(* alignUpU32: the sum wraps, the mask does not. *)
AlignUpWrapping(offset, alignment) ==
  (Uint32(offset + alignment - 1) \div alignment) * alignment

-----------------------------------------------------------------------------
(* Types.                                                                  *)

SizeOf == [Void |-> 0, Bool |-> 1, Uint8 |-> 1, Int32 |-> 4, Text |-> 4,
           Pointer |-> 4, Int64 |-> 8]
Scalar(name) ==
  [form |-> "scalar", name |-> name, size |-> SizeOf[name],
   alignment |-> IF SizeOf[name] <= 1 THEN 1 ELSE SizeOf[name]]

IsAggregate(type) == type.form \in {"array", "struct"}
Complete(type) == type.size > 0

ArrayOf(base, count) ==
  [form |-> "array", base |-> base, count |-> count, size |-> base.size * count,
   alignment |-> base.alignment]

(* int32 a[2][3]: each declarator makes an array of what is to its left. *)
Arrays(base, counts) ==
  LET made[i \in 0 .. Len(counts)] ==
        IF i = 0 THEN base ELSE ArrayOf(made[i - 1], counts[i])
  IN  made
TypeOf(written) == Arrays(types[written.name], written.counts)[Len(written.counts)]

TypeAccepted(written) ==
  /\ written.name \in DOMAIN types
  /\ written.counts # << >> =>
       /\ Complete(types[written.name])
       /\ \A i \in DOMAIN written.counts : written.counts[i] > 0
       /\ TypeOf(written).size <= AddressSpace

Unrounded(size, alignment) == size
Rounded(size, alignment) == AlignUp(size, alignment)

(* Values one after another, each at the next place that suits it. *)
Ends(list) ==
  LET end[i \in 0 .. Len(list)] ==
        IF i = 0 THEN 0 ELSE AlignUp(end[i - 1], list[i].alignment) + list[i].size
  IN  end
Laid(list) ==
  [offsets |-> [i \in 1 .. Len(list) |-> AlignUp(Ends(list)[i - 1], list[i].alignment)],
   size |-> Ends(list)[Len(list)]]

StructOf(fields) ==
  LET list == [i \in DOMAIN fields |-> TypeOf(fields[i].type)]
      laid == Laid(list)
      alignment == Max({1} \cup { list[i].alignment : i \in DOMAIN list })
  IN  [form |-> "struct", alignment |-> alignment,
       size |-> Rounded(laid.size, alignment),
       fields |-> [i \in DOMAIN fields |->
                     [name |-> fields[i].name, type |-> list[i],
                      offset |-> laid.offsets[i]]]]

FieldsAccepted(fields) ==
  /\ fields # << >>
  /\ \A i, j \in DOMAIN fields : fields[i].name = fields[j].name => i = j
  /\ \A i \in DOMAIN fields :
       TypeAccepted(fields[i].type) /\ Complete(TypeOf(fields[i].type))

StructAccepted(struct) ==
  /\ struct.name \notin DOMAIN types
  /\ FieldsAccepted(struct.fields)
  /\ StructOf(struct.fields).size <= AddressSpace

DeclareStruct(struct) ==
  /\ StructAccepted(struct)
  /\ types' = [name \in DOMAIN types \cup {struct.name} |->
                 IF name = struct.name THEN StructOf(struct.fields) ELSE types[name]]
  /\ UNCHANGED << places, sizes, images, strings >>

-----------------------------------------------------------------------------
(* Variables.                                                              *)

Segments == {"extern", "bss", "data", "const"}

(* Which a declaration asks for.  An array is never const, its elements    *)
(* may be.                                                                 *)
SegmentOf(variable) ==
  CASE variable.extern -> "extern"
    [] ~ variable.extern /\ variable.const /\ variable.type.counts = << >> -> "const"
    [] OTHER -> IF variable.initial = NoValue THEN "bss" ELSE "data"

VariableAccepted(variable) ==
  /\ TypeAccepted(variable.type)
  /\ ~ (variable.extern /\ variable.const)
  /\ ~ variable.extern => variable.type.name # "Void"

(* A segment with more in it: longer, never shorter, and zero there. *)
Grown(image, size) ==
  IF size <= Uint32(Len(image)) THEN image
  ELSE image \o [i \in 1 .. size - Uint32(Len(image)) |-> 0]

EndOf(segment) ==
  IF segment = "const" THEN Uint32(Len(images.const)) ELSE sizes[segment]

PlaceRefused(variable) ==
  LET offset == AlignUp(EndOf("extern"), TypeOf(variable.type).alignment)
  IN  /\ SegmentOf(variable) = "extern"
      /\ offset + TypeOf(variable.type).size > MaxOffset

PlaceVariable(variable) ==
  LET segment == SegmentOf(variable)
      type == TypeOf(variable.type)
      offset == AlignUpWrapping(EndOf(segment), type.alignment)
      end == Uint32(offset + type.size)
  IN  /\ ~ PlaceRefused(variable)
      /\ places' = [places EXCEPT
                      ![segment] = Append(@, [name |-> variable.name, type |-> type,
                                              offset |-> offset])]
      /\ sizes' = IF segment = "const" THEN sizes ELSE [sizes EXCEPT ![segment] = end]
      /\ images' = IF segment \in DOMAIN images
                   THEN [images EXCEPT ![segment] = Grown(@, end)] ELSE images
      /\ UNCHANGED << types, strings >>

PlaceOf(name) ==
  CHOOSE place \in UNION { Range(places[segment]) : segment \in Segments } :
    place.name = name

-----------------------------------------------------------------------------
(* Initial values.                                                         *)

(* String literals go to the end of the const image, each once. *)
Interned(pool, text) ==
  IF text \in DOMAIN pool.at THEN pool
  ELSE [image |-> pool.image \o text \o << 0 >>,
        at |-> [t \in DOMAIN pool.at \cup {text} |->
                  IF t = text THEN Uint32(Len(pool.image)) ELSE pool.at[t]]]

Pool == [image |-> images.const, at |-> strings]

(* With the literals of a function body, as they come. *)
Pools(body) ==
  LET upTo[i \in 0 .. Len(body)] ==
        IF i = 0 THEN Pool
        ELSE IF body[i].op # "text" THEN upTo[i - 1]
        ELSE Interned(upTo[i - 1], body[i].text)
  IN  upTo
PoolWith(body) == Pools(body)[Len(body)]

ConstSegment == 4
Address(offset) == ConstSegment * AddressSpace + (offset % AddressSpace)

ValueAccepted(type, initial) ==
  IF initial.form = "text" THEN type = Scalar("Text")
  ELSE type.name \in {"Text", "Pointer"} => initial.number = 0

PoolAfter(initial) ==
  IF initial.form = "text" THEN Interned(Pool, initial.text) ELSE Pool

(* The number that stands for an initial value of this type. *)
BitsOf(type, initial) ==
  CASE initial.form = "text" -> Address(PoolAfter(initial).at[initial.text])
    [] initial.form = "number" /\ type.name = "Bool" ->
         IF initial.number = 0 THEN 0 ELSE 1
    [] OTHER -> initial.number

WrittenTo(image, offset, bytes) ==
  [i \in DOMAIN image |->
     IF i - offset \in DOMAIN bytes THEN bytes[i - offset] ELSE image[i]]

(* The segment is taken after the literal has found its place in it. *)
ImageBefore(segment, initial) == images[segment]
ImageToFill(segment, initial) ==
  IF segment = "const" THEN PoolAfter(initial).image ELSE images[segment]

InitializerAccepted(variable) ==
  LET segment == SegmentOf(variable)
      place == PlaceOf(variable.name)
  IN  /\ segment \in {"data", "const"}
      /\ ~ IsAggregate(place.type)
      /\ ValueAccepted(place.type, variable.initial)
      /\ place.offset + place.type.size <= Len(ImageToFill(segment, variable.initial))

Initialize(variable) ==
  LET segment == SegmentOf(variable)
      place == PlaceOf(variable.name)
      filled == WrittenTo(ImageToFill(segment, variable.initial), place.offset,
                          Bytes(BitsOf(place.type, variable.initial), place.type.size))
      pool == PoolAfter(variable.initial)
  IN  /\ InitializerAccepted(variable)
      /\ strings' = pool.at
      /\ images' = [const |-> IF segment = "const" THEN filled ELSE pool.image,
                    data |-> IF segment = "data" THEN filled ELSE images.data]
      /\ UNCHANGED << types, places, sizes >>

Intern(body) ==
  /\ strings' = PoolWith(body).at
  /\ images' = [images EXCEPT !.const = PoolWith(body).image]
  /\ UNCHANGED << types, places, sizes >>

-----------------------------------------------------------------------------
LayoutInit ==
  /\ types = [name \in DOMAIN SizeOf |-> Scalar(name)]
  /\ places = [segment \in Segments |-> << >>]
  /\ sizes = [segment \in Segments \ {"const"} |-> 0]
  /\ images = [data |-> << >>, const |-> << >>]
  /\ strings = << >>

-----------------------------------------------------------------------------
(* Parts of a value: members of structs, items of arrays.                  *)

Member(field) == [by |-> "member", field |-> field, item |-> 0]
Item(item) == [by |-> "index", field |-> "", item |-> item]

StepRefused(type, step) ==
  CASE step.by = "member" ->
         type.form # "struct" \/ \A f \in Range(type.fields) : f.name # step.field
    [] step.by = "index" -> type.form # "array" \/ step.item \notin 0 .. type.count - 1

MemberAt(part, field) ==
  LET found == CHOOSE f \in Range(part.type.fields) : f.name = field
  IN  [part EXCEPT !.offset = @ + found.offset, !.type = found.type]
ItemAt(part, item) ==
  [part EXCEPT !.offset = @ + item * part.type.base.size, !.type = part.type.base]

(* A part of a part; none once a step has been refused. *)
PartAt(part, step) ==
  IF ~ part.ok \/ StepRefused(part.type, step) THEN [part EXCEPT !.ok = FALSE]
  ELSE IF step.by = "member" THEN MemberAt(part, step.field)
       ELSE ItemAt(part, step.item)

(* The parts that these steps lead to, one after another; each comes from  *)
(* the one before it, which TLC computes once.                             *)
PartsAlong(whole, steps) ==
  LET part[i \in 0 .. Len(steps)] ==
        IF i = 0 THEN whole
        ELSE CHOOSE next \in { PartAt(before, steps[i]) : before \in {part[i - 1]} } : TRUE
  IN  part
PartThrough(whole, steps) == PartsAlong(whole, steps)[Len(steps)]

PartOf(segment, offset, type) ==
  [ok |-> TRUE, segment |-> segment, offset |-> offset, type |-> type]

-----------------------------------------------------------------------------
(* All scalars in a value of a type, and in the globals of a segment, each *)
(* with the way to it.                                                     *)

StepsInto(type) ==
  CASE type.form = "struct" -> { Member(f.name) : f \in Range(type.fields) }
    [] type.form = "array" -> { Item(i) : i \in 0 .. type.count - 1 }
    [] OTHER -> {}

(* How deep the types of a program may be nested. *)
MaxDepth == 5

Further(way) ==
  LET steps == StepsInto(way.part.type)
  IN  IF steps = {} THEN {way}
      ELSE { [path |-> Append(way.path, step), part |-> PartAt(way.part, step)] :
               step \in steps }

(* The ways into a global, at most so many steps from it. *)
WaysInto(place, segment) ==
  LET ways[depth \in 0 .. MaxDepth] ==
        IF depth = 0
        THEN { [path |-> << place.name >>,
                part |-> PartOf(segment, place.offset, place.type)] }
        ELSE UNION { Further(way) : way \in ways[depth - 1] }
  IN  ways
ScalarsOf(place, segment) == WaysInto(place, segment)[MaxDepth]

ScalarsIn(segment) ==
  UNION { ScalarsOf(place, segment) : place \in Range(places[segment]) }

(* The globals of the segment end where 32 bits can tell.  The memory of   *)
(* the host always does: a program that asks for more is refused.          *)
TypesIn(segment) == [i \in DOMAIN places[segment] |-> places[segment][i].type]
Roomy(segment) == segment = "extern" \/ Laid(TypesIn(segment)).size <= MaxOffset

EndOfPart(part) == part.offset + part.type.size
Extent(segment) == IF segment = "const" THEN Len(images.const) ELSE sizes[segment]

(* LANGUAGE.md 210, 800: every scalar of every global, members of structs  *)
(* and items of arrays too, is aligned to its size and has its bytes for   *)
(* itself, inside of its segment, and the image that fills the segment has *)
(* the segment's size.  Only globals that take more than 32 bits can count *)
(* share bytes.                                                            *)
ScalarsApart ==
  \A segment \in Segments : Roomy(segment) =>
    /\ segment = "data" => Len(images.data) = sizes.data
    /\ \E scalars \in {ScalarsIn(segment)} : \A one \in scalars :
         /\ one.part.offset % one.part.type.alignment = 0
         /\ EndOfPart(one.part) <= Extent(segment)
         /\ \A other \in scalars \ {one} :
              \/ EndOfPart(one.part) <= other.part.offset
              \/ EndOfPart(other.part) <= one.part.offset
=============================================================================
