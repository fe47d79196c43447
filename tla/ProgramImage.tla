----------------------------- MODULE ProgramImage -----------------------------
(***************************************************************************)
(* A linked program is published as a block of bytes and opened again, by  *)
(* the Go VM (cova/image.go) and by the native runtime                     *)
(* (source/main/cpp/linked_program.cpp).                                   *)
(*                                                                         *)
(* A block is a header, six array headers, and the arrays these point to;  *)
(* the offset in an array header counts from that header.  A cell of the   *)
(* text is one byte of the block.                                          *)
(***************************************************************************)
EXTENDS Linker

CONSTANTS
  NoImage       \* nothing has been built, or opened

VARIABLES
  block,        \* the published block, or NoImage
  built,        \* status of BuildProgramImage, or NoImage
  opened,       \* what LoadProgramImage makes of the block: a status and a
                \* program or NoImage; or NoImage
  native        \* what open_program_image makes of it: "program", "null", NoImage

imageVars == << block, built, opened, native >>

-----------------------------------------------------------------------------
(* Images.                                                                 *)

HeaderSize == 76
ArrayNames == << "functions", "paramKinds", "paramOffsets", "text", "const", "data" >>
ElementSize == << 20, 1, 4, 1, 1, 1 >>
FieldOffset(i) == 28 + 8 * (i - 1)

ImageOfLinked ==
  [entryPoint |-> linked.entryPoint, frameSize |-> linked.frameSize,
   frameByteSize |-> linked.frameByteSize, functions |-> linked.functions,
   paramKinds |-> linked.paramKinds, paramOffsets |-> linked.paramOffsets,
   text |-> linked.text, bss |-> linked.bssSize, const |-> linked.const,
   data |-> linked.data]

FunctionStatus(image, f) ==
  IF f.body >= Len(image.text) THEN "InvalidDescriptor"
  ELSE IF \/ f.paramStart > Len(image.paramKinds)
          \/ f.paramCount > Len(image.paramKinds) - f.paramStart
          \/ f.paramStart + f.paramCount > image.frameSize
       THEN "InvalidParameter"
  ELSE IF f.frame > image.frameByteSize THEN "InvalidDescriptor"
  ELSE "OK"

(* validateProgramImage: the status of the first function that has one. *)
ImageStatus(image) ==
  LET bad == { i \in DOMAIN image.functions :
                 FunctionStatus(image, image.functions[i]) # "OK" }
  IN  IF Len(image.paramKinds) # Len(image.paramOffsets) THEN "InvalidParameter"
      ELSE IF image.entryPoint >= Len(image.functions) THEN "InvalidTarget"
      ELSE IF bad # {} THEN FunctionStatus(image, image.functions[Min(bad)])
      ELSE "OK"

BuildStatus(image) ==
  IF linked.dataSize # Len(linked.data) THEN "InvalidImage"
  ELSE IF image.entryPoint >= Len(image.functions) THEN "InvalidDescriptor"
  ELSE ImageStatus(image)

-----------------------------------------------------------------------------
(* Blocks, as the stream library writes and reads them.                    *)

(* The header, then the arrays, each at the next multiple of four. *)
Parts(image) ==
  [i \in 1 .. 7 |->
     [alignment |-> 4,
      size |-> IF i = 1 THEN HeaderSize
               ELSE Len(image[ArrayNames[i - 1]]) * ElementSize[i - 1]]]
Starts(image) == [i \in 1 .. 6 |-> Laid(Parts(image)).offsets[i + 1]]

OffsetFromBlock(start, i) == start
OffsetFromHeader(start, i) == start - FieldOffset(i)

Encode(image) ==
  LET starts == Starts(image)
      array(i) == image[ArrayNames[i]]
  IN  [entryPoint |-> image.entryPoint, bss |-> image.bss, frameSize |-> image.frameSize,
       frameByteSize |-> image.frameByteSize,
       arrays |-> [i \in 1 .. 6 |->
                     [offset |-> IF array(i) = << >> THEN 0
                                 ELSE OffsetFromHeader(starts[i], i),
                      size |-> Len(array(i))]],
       at |-> [start \in { starts[i] : i \in { k \in 1 .. 6 : array(k) # << >> } } |->
                 array(CHOOSE i \in 1 .. 6 : starts[i] = start /\ array(i) # << >>)],
       size |-> starts[6] + Len(image.data)]

ArrayIn(b, i) ==
  LET start == FieldOffset(i) + b.arrays[i].offset
  IN  IF b.arrays[i].size = 0 THEN << >>
      ELSE IF start \in DOMAIN b.at THEN b.at[start] ELSE << >>

Decode(b) ==
  [entryPoint |-> b.entryPoint, bss |-> b.bss, frameSize |-> b.frameSize,
   frameByteSize |-> b.frameByteSize,
   functions |-> ArrayIn(b, 1), paramKinds |-> ArrayIn(b, 2),
   paramOffsets |-> ArrayIn(b, 3), text |-> ArrayIn(b, 4),
   const |-> ArrayIn(b, 5), data |-> ArrayIn(b, 6)]

-----------------------------------------------------------------------------
(* The native runtime.                                                     *)

Alignments == << 4, 1, 4, 1, 1, 1 >>

ArrayFits(b, i, size) ==
  LET ref == b.arrays[i]
      start == FieldOffset(i) + ref.offset
  IN  IF ref.size = 0 THEN ref.offset = 0
      ELSE /\ ref.offset # 0
           /\ start >= 0 /\ start <= size
           /\ start % Alignments[i] = 0
           /\ ref.size <= (size - start) \div ElementSize[i]

NativeFunctionValid(image, f) ==
  /\ f.body < Len(image.text)
  /\ f.paramStart <= Len(image.paramKinds)
  /\ f.paramCount <= Len(image.paramKinds) - f.paramStart
  /\ f.paramStart + f.paramCount <= image.frameSize
  /\ f.frame <= image.frameByteSize

NativeTablesValid(image) ==
  /\ Len(image.paramKinds) = Len(image.paramOffsets)
  /\ image.functions # << >>
  /\ image.entryPoint < Len(image.functions)
  /\ "Void" \notin Range(image.paramKinds)
  /\ \A i \in DOMAIN image.functions : NativeFunctionValid(image, image.functions[i])

(* The arrays are checked against the size of the block, but what comes of *)
(* it is dropped; what counts is the check against the size of the header. *)
NativeValid(b) ==
  /\ b.size >= HeaderSize
  /\ \A i \in 1 .. 6 : ArrayFits(b, i, HeaderSize)
  /\ NativeTablesValid(Decode(b))

-----------------------------------------------------------------------------
ImageInit ==
  /\ Init
  /\ block = NoImage /\ built = NoImage /\ opened = NoImage /\ native = NoImage

BuildProgramImage ==
  /\ stage = "linked"
  /\ built = NoImage
  /\ built' = BuildStatus(ImageOfLinked)
  /\ block' = IF built' = "OK" THEN Encode(ImageOfLinked) ELSE NoImage
  /\ UNCHANGED << vars, opened, native >>

OpenProgramImage ==
  /\ block # NoImage
  /\ opened = NoImage
  /\ LET image == Decode(block)
         status == ImageStatus(image)
     IN  opened' = [status |-> status,
                    image |-> IF status = "OK" THEN image ELSE NoImage]
  /\ UNCHANGED << vars, block, built, native >>

OpenNatively ==
  /\ block # NoImage
  /\ native = NoImage
  /\ native' = IF NativeValid(block) THEN "program" ELSE "null"
  /\ UNCHANGED << vars, block, built, opened >>

ImageNext ==
  \/ Next /\ UNCHANGED imageVars
  \/ BuildProgramImage
  \/ OpenProgramImage
  \/ OpenNatively

ImageSpec == ImageInit /\ [][ImageNext]_<< vars, imageVars >>
FairImageSpec == ImageSpec /\ WF_<< vars, imageVars >>(Next /\ UNCHANGED imageVars)

-----------------------------------------------------------------------------
(* The Go VM gets from the block the very program that was linked: its     *)
(* text, tables, entry point, frame sizes and initial memory.              *)
ImageRoundTrips == opened # NoImage => opened.image = ImageOfLinked

(* What the linker lets through is what the native runtime asks of the     *)
(* tables of a block: no parameter is void, every slice and every body is  *)
(* inside its table.                                                       *)
NativeTablesHold == block # NoImage => NativeTablesValid(Decode(block))

(* reachable_compile_test.go 142: a linked program has an image. *)
LinkedHasImage == built \in {NoImage, "OK"}

(* test_image.cpp 77: a well-formed block is opened where it lies. *)
NativeOpensBuilt == native # "null"
=============================================================================
